---------------------------- MODULE Spec2Model ----------------------------
(***************************************************************************)
(* A model of CipherSim's AttackSimulator (core/attack_simulator.py): the  *)
(* lazy candidate generators of the five attack modes and the comparison   *)
(* loop of simulate_attack with its attempt ceiling, throttle and          *)
(* cooperative stop flag.                                                  *)
(*                                                                         *)
(* A Python str is a sequence of one-character strings ("ab" is            *)
(* <<"a", "b">>); an Optional[x] is a sequence of length 0 (None) or 1.    *)
(***************************************************************************)
EXTENDS Integers, Sequences, FiniteSets, TLC

VARIABLES
    config,          \* the AttackConfig of the current (or last) invocation
    target,          \* target_password
    pc,              \* where simulate_attack stands
    gen,             \* the candidate generator: the position of its next yield
    candidate,       \* the loop variable, Optional[str]
    attempts,        \* local attempts
    found,           \* local found
    stopped_by_limit,\* local stopped_by_limit
    stop_requested,  \* self._stop_requested
    sleeps,          \* time.sleep(1.0) calls of this invocation
    compared,        \* candidates compared to the target in this invocation
    outcome,         \* how the invocation's loop ended
    result,          \* the AttackResult last returned, Optional
    stopDuring,      \* stop() was called since this invocation began
    afterStop,       \* candidates compared since stop() was first called in it
    prevRun,         \* the previous invocation's result, Optional
    yielded,         \* what a drained generator has yielded so far
    engine,          \* the HashEngine call in progress and the last HashResult
    analysis         \* the PasswordAnalyzer.analyze call in progress

vars == <<config, target, pc, gen, candidate, attempts, found, stopped_by_limit,
          stop_requested, sleeps, compared, outcome, result, stopDuring,
          afterStop, prevRun, yielded, engine, analysis>>

\* simulate_attack and the generators touch neither of the two
others == <<engine, analysis>>

---------------------------------------------------------------------------
(* Bounds of the model *)

MaxLen == 2          \* brute force: min_length and max_length range over 0..MaxLen
MaxMaskTokens == 2   \* a mask is at most this many tokens of MaskTokens
MaxYield == 100      \* a drained generator is followed for this many candidates
MaxAttempts == 6     \* max_attempts ranges over 0..MaxAttempts in the loop model
MaxSpeed == 2        \* speed_limit ranges over 1..MaxSpeed in the loop model

\* Outside the inputs modelled: speed_limit = 0, for which `attempts % speed_limit`
\* raises ZeroDivisionError at the second candidate, and a negative min_length,
\* for which itertools.product raises ValueError.

---------------------------------------------------------------------------
(* Python's string constants.  The grave accent cannot be written in a TLA+ *)
(* string; the token "GRAVE" stands for that one character.                *)

ascii_lowercase ==
    <<"a", "b", "c", "d", "e", "f", "g", "h", "i", "j", "k", "l", "m", "n", "o",
      "p", "q", "r", "s", "t", "u", "v", "w", "x", "y", "z">>

ascii_uppercase ==
    <<"A", "B", "C", "D", "E", "F", "G", "H", "I", "J", "K", "L", "M", "N", "O",
      "P", "Q", "R", "S", "T", "U", "V", "W", "X", "Y", "Z">>

digits == <<"0", "1", "2", "3", "4", "5", "6", "7", "8", "9">>

punctuation ==
    <<"!", "\"", "#", "$", "%", "&", "'", "(", ")", "*", "+", ",", "-", ".", "/",
      ":", ";", "<", "=", ">", "?", "@", "[", "\\", "]", "^", "_", "GRAVE", "{", "|",
      "}", "~">>

special_chars ==
    <<"!", "@", "#", "$", "%", "^", "&", "*", "(", ")", "_", "+", "-", "=", "[",
      "]", "{", "}", "|", ";", ":", ",", ".", "<", ">", "?">>

any_chars == ascii_lowercase \o ascii_uppercase \o digits \o punctuation

whitespace == {" ", "\t", "\n", "\r"}

None == <<>>
Some(x) == <<x>>

\* no call of the object has been made: op is the method last called, args
\* its arguments, ret what it returned or raised, kept what its caller holds
\* from earlier calls
NoCall == [op |-> "none", args |-> <<>>, ret |-> <<>>, kept |-> None]

\* how a call ends: a returned value, or an exception leaving the method
Ret(v) == [raised |-> "no", value |-> v]
Raise(exc) == [raised |-> exc]

AttackModes == {"dictionary", "brute_force", "hybrid", "mask", "credential_stuffing"}

default_max_attempts == 1000000
default_speed_limit == 10000

---------------------------------------------------------------------------
(* str methods used by the generators *)

IndexIn(c, s) == CHOOSE i \in 1..Len(s) : s[i] = c
Occurs(c, s) == \E i \in 1..Len(s) : s[i] = c

char_upper(c) == IF Occurs(c, ascii_lowercase)
                 THEN ascii_uppercase[IndexIn(c, ascii_lowercase)] ELSE c
char_lower(c) == IF Occurs(c, ascii_uppercase)
                 THEN ascii_lowercase[IndexIn(c, ascii_uppercase)] ELSE c

str_upper(w) == [i \in 1..Len(w) |-> char_upper(w[i])]
str_lower(w) == [i \in 1..Len(w) |-> char_lower(w[i])]
str_capitalize(w) ==
    [i \in 1..Len(w) |-> IF i = 1 THEN char_upper(w[i]) ELSE char_lower(w[i])]

RECURSIVE lstrip(_)
lstrip(s) == IF s # <<>> /\ Head(s) \in whitespace THEN lstrip(Tail(s)) ELSE s
RECURSIVE rstrip(_)
rstrip(s) == IF s # <<>> /\ s[Len(s)] \in whitespace
             THEN rstrip(SubSeq(s, 1, Len(s) - 1)) ELSE s
str_strip(s) == rstrip(lstrip(s))

---------------------------------------------------------------------------
(* itertools.product, as the odometer over the pools' indices *)

PoolsEmpty(pools) == \E i \in 1..Len(pools) : Len(pools[i]) = 0

product_first(pools) == [i \in 1..Len(pools) |-> 1]

product_value(pools, idx) == [i \in 1..Len(pools) |-> pools[i][idx[i]]]

product_has_next(pools, idx) == \E i \in 1..Len(pools) : idx[i] < Len(pools[i])

\* a product whose leftmost position varies fastest
product_advance_leftmost(pools, idx) ==
    LET j == CHOOSE j \in 1..Len(pools) :
                 /\ idx[j] < Len(pools[j])
                 /\ \A k \in 1..(j - 1) : idx[k] = Len(pools[k])
    IN  [i \in 1..Len(pools) |->
            IF i > j THEN idx[i] ELSE IF i = j THEN idx[i] + 1 ELSE 1]

product_advance(pools, idx) ==
    LET j == CHOOSE j \in 1..Len(pools) :
                 /\ idx[j] < Len(pools[j])
                 /\ \A k \in (j + 1)..Len(pools) : idx[k] = Len(pools[k])
    IN  [i \in 1..Len(pools) |->
            IF i < j THEN idx[i] ELSE IF i = j THEN idx[i] + 1 ELSE 1]

\* A generator is the position of its next yield; Dead is the exhausted one,
\* Raising the one whose next step raises instead of yielding.
Dead == [phase |-> 0, idx |-> <<>>, live |-> FALSE, raised |-> FALSE]
At(p, idx) == [phase |-> p, idx |-> idx, live |-> TRUE, raised |-> FALSE]
Raising == [phase |-> 0, idx |-> <<>>, live |-> FALSE, raised |-> TRUE]


---------------------------------------------------------------------------
(* The wordlist files of the environment: path.exists() and the lines open() *)
(* iterates over, each with its line ending.  open() raises OSError on a    *)
(* path that exists and cannot be read (no permission, a directory).        *)

ExistingFiles == {"words.txt", "blank.txt", "locked.txt"}
UnreadableFiles == {"locked.txt"}

FileLines(path) ==
    IF path = "words.txt"
    THEN << <<" ", "o", "n", "e", "\n">>,
            <<"\n">>,
            <<"T", "w", "o", "\t", "\n">>,
            <<" ", "\t", "\n">>,
            <<"a", "z">> >>
    ELSE << <<"\n">>, <<" ", "\n">> >>

default_wordlist ==
    << <<"p", "a", "s", "s", "w", "o", "r", "d">>,
       <<"1", "2", "3", "4", "5", "6">>,
       <<"1", "2", "3", "4", "5", "6", "7", "8">>,
       <<"q", "w", "e", "r", "t", "y">>,
       <<"a", "b", "c", "1", "2", "3">>,
       <<"p", "a", "s", "s", "w", "o", "r", "d", "1", "2", "3">>,
       <<"a", "d", "m", "i", "n">>,
       <<"l", "e", "t", "m", "e", "i", "n">>,
       <<"w", "e", "l", "c", "o", "m", "e">>,
       <<"m", "o", "n", "k", "e", "y">>,
       <<"d", "r", "a", "g", "o", "n">>,
       <<"m", "a", "s", "t", "e", "r">>,
       <<"s", "u", "n", "s", "h", "i", "n", "e">>,
       <<"p", "r", "i", "n", "c", "e", "s", "s">>,
       <<"f", "o", "o", "t", "b", "a", "l", "l">>,
       <<"i", "l", "o", "v", "e", "y", "o", "u">>,
       <<"s", "h", "a", "d", "o", "w">>,
       <<"m", "i", "c", "h", "a", "e", "l">>,
       <<"s", "u", "p", "e", "r", "m", "a", "n">>,
       <<"t", "r", "u", "s", "t", "n", "o", "1">> >>

demo_credentials ==
    << <<"P", "a", "s", "s", "w", "o", "r", "d", "1", "2", "3", "!">>,
       <<"W", "e", "l", "c", "o", "m", "e", "2", "0", "2", "4">>,
       <<"A", "d", "m", "i", "n", "@", "1", "2", "3">>,
       <<"S", "u", "m", "m", "e", "r", "2", "0", "2", "4", "!">> >>

---------------------------------------------------------------------------
(* _dictionary_generator *)

RECURSIVE StrippedLines(_)
StrippedLines(lines) ==
    IF lines = <<>> THEN <<>>
    ELSE LET password == str_strip(Head(lines))
         IN  (IF password # <<>> THEN <<password>> ELSE <<>>)
                 \o StrippedLines(Tail(lines))

\* the passwords each existing file yields
FileWords == [path \in ExistingFiles |-> StrippedLines(FileLines(path))]

dictionary_words(cfg) ==
    IF cfg.wordlist_path = None \/ cfg.wordlist_path[1] \notin ExistingFiles
    THEN default_wordlist
    ELSE FileWords[cfg.wordlist_path[1]]

\* open(config.wordlist_path) raises at the generator's first step
open_raises(cfg) ==
    cfg.wordlist_path # None /\ cfg.wordlist_path[1] \in UnreadableFiles

list_first(words) == IF words = <<>> THEN Dead ELSE At(1, <<>>)
list_step(words, g) == IF g.phase < Len(words) THEN At(g.phase + 1, <<>>) ELSE Dead

---------------------------------------------------------------------------
(* _brute_force_generator *)

brute_pools(cfg, length) == [i \in 1..length |-> cfg.charset]

\* the outer loop from `length` on: the first length whose product yields
RECURSIVE brute_from(_, _)
brute_from(cfg, length) ==
    IF length > cfg.max_length THEN Dead
    ELSE IF PoolsEmpty(brute_pools(cfg, length)) THEN brute_from(cfg, length + 1)
    ELSE At(length, product_first(brute_pools(cfg, length)))

brute_force_first(cfg) == brute_from(cfg, cfg.min_length)

brute_force_value(cfg, g) == product_value(brute_pools(cfg, g.phase), g.idx)

brute_force_step(cfg, g) ==
    IF product_has_next(brute_pools(cfg, g.phase), g.idx)
    THEN At(g.phase, product_advance(brute_pools(cfg, g.phase), g.idx))
    ELSE brute_from(cfg, g.phase + 1)

---------------------------------------------------------------------------
(* _hybrid_generator *)

hybrid_suffixes ==
    << <<"1">>, <<"1", "2", "3">>, <<"2", "0", "2", "4">>, <<"2", "0", "2", "5">>,
       <<"!">> >>

leet_map(c) ==
    CASE c = "a" -> "4" [] c = "e" -> "3" [] c = "i" -> "1"
      [] c = "o" -> "0" [] c = "s" -> "5" [] c = "t" -> "7"

leet_char(c) ==
    IF char_lower(c) \in {"a", "e", "i", "o", "s", "t"}
    THEN leet_map(char_lower(c)) ELSE c

leet_word(word) == [i \in 1..Len(word) |-> leet_char(word[i])]

RECURSIVE suffixed(_, _)
suffixed(word, nums) ==
    IF nums = <<>> THEN <<>>
    ELSE <<word \o Head(nums), str_capitalize(word) \o Head(nums)>>
             \o suffixed(word, Tail(nums))

\* hybrid_variants with the l33t form yielded even when it equals the word
hybrid_variants_always_leet(word) ==
    <<word, str_capitalize(word), str_upper(word), str_lower(word)>>
        \o suffixed(word, hybrid_suffixes)
        \o <<leet_word(word)>>

\* what one dictionary word yields, in order
hybrid_variants(word) ==
    <<word, str_capitalize(word), str_upper(word), str_lower(word)>>
        \o suffixed(word, hybrid_suffixes)
        \o (IF leet_word(word) # word THEN <<leet_word(word)>> ELSE <<>>)

hybrid_first(cfg) ==
    IF open_raises(cfg) THEN Raising
    ELSE IF dictionary_words(cfg) = <<>> THEN Dead ELSE At(1, <<1>>)

hybrid_value(cfg, g) == hybrid_variants(dictionary_words(cfg)[g.phase])[g.idx[1]]

hybrid_step(cfg, g) ==
    IF g.idx[1] < Len(hybrid_variants(dictionary_words(cfg)[g.phase]))
    THEN At(g.phase, <<g.idx[1] + 1>>)
    ELSE IF g.phase < Len(dictionary_words(cfg)) THEN At(g.phase + 1, <<1>>)
    ELSE Dead

---------------------------------------------------------------------------
(* _mask_generator *)

\* ?u mistaken for ?l
placeholder_pools_no_upper(placeholder) ==
    IF placeholder = "l" \/ placeholder = "u" THEN <<ascii_lowercase>>
    ELSE IF placeholder = "d" THEN <<digits>>
    ELSE IF placeholder = "s" THEN <<special_chars>>
    ELSE IF placeholder = "a" THEN <<any_chars>>
    ELSE <<>>

\* the placeholder's character set; nothing is appended for any other letter
placeholder_pools(placeholder) ==
    IF placeholder = "l" THEN <<ascii_lowercase>>
    ELSE IF placeholder = "u" THEN <<ascii_uppercase>>
    ELSE IF placeholder = "d" THEN <<digits>>
    ELSE IF placeholder = "s" THEN <<special_chars>>
    ELSE IF placeholder = "a" THEN <<any_chars>>
    ELSE <<>>

\* the while loop from index i (1-based) on
RECURSIVE parse_mask_from(_, _)
parse_mask_from(mask, i) ==
    IF i > Len(mask) THEN <<>>
    ELSE IF mask[i] = "?" /\ i + 1 <= Len(mask)
    THEN placeholder_pools(mask[i + 1]) \o parse_mask_from(mask, i + 2)
    ELSE << <<mask[i]>> >> \o parse_mask_from(mask, i + 1)

parse_mask(mask) == parse_mask_from(mask, 1)

\* `not config.mask`: None or the empty string
mask_absent(cfg) == cfg.mask = None \/ cfg.mask[1] = <<>>

mask_first(cfg) ==
    IF mask_absent(cfg) THEN brute_force_first(cfg)
    ELSE IF PoolsEmpty(parse_mask(cfg.mask[1])) THEN Dead
    ELSE At(0, product_first(parse_mask(cfg.mask[1])))

mask_value(cfg, g) ==
    IF mask_absent(cfg) THEN brute_force_value(cfg, g)
    ELSE product_value(parse_mask(cfg.mask[1]), g.idx)

mask_step(cfg, g) ==
    IF mask_absent(cfg) THEN brute_force_step(cfg, g)
    ELSE IF product_has_next(parse_mask(cfg.mask[1]), g.idx)
    THEN At(0, product_advance(parse_mask(cfg.mask[1]), g.idx))
    ELSE Dead

---------------------------------------------------------------------------
(* The generator simulate_attack picks for config.mode *)

generator_first(cfg) ==
    CASE cfg.mode = "dictionary" ->
             IF open_raises(cfg) THEN Raising ELSE list_first(dictionary_words(cfg))
      [] cfg.mode = "brute_force" -> brute_force_first(cfg)
      [] cfg.mode = "hybrid" -> hybrid_first(cfg)
      [] cfg.mode = "mask" -> mask_first(cfg)
      [] cfg.mode = "credential_stuffing" -> list_first(demo_credentials)

generator_value(cfg, g) ==
    CASE cfg.mode = "dictionary" -> dictionary_words(cfg)[g.phase]
      [] cfg.mode = "brute_force" -> brute_force_value(cfg, g)
      [] cfg.mode = "hybrid" -> hybrid_value(cfg, g)
      [] cfg.mode = "mask" -> mask_value(cfg, g)
      [] cfg.mode = "credential_stuffing" -> demo_credentials[g.phase]

generator_step(cfg, g) ==
    CASE cfg.mode = "dictionary" -> list_step(dictionary_words(cfg), g)
      [] cfg.mode = "brute_force" -> brute_force_step(cfg, g)
      [] cfg.mode = "hybrid" -> hybrid_step(cfg, g)
      [] cfg.mode = "mask" -> mask_step(cfg, g)
      [] cfg.mode = "credential_stuffing" -> list_step(demo_credentials, g)

---------------------------------------------------------------------------
(* The inputs *)

AttackConfig(mode, charset, lo, hi, wordlist_path, mask, max_attempts, speed) ==
    [mode |-> mode, charset |-> charset, min_length |-> lo, max_length |-> hi,
     wordlist_path |-> wordlist_path, mask |-> mask,
     max_attempts |-> max_attempts, speed_limit |-> speed]

default_charset == ascii_lowercase \o digits

WordlistPaths ==
    {None, Some("missing.txt"), Some("words.txt"), Some("blank.txt"),
     Some("locked.txt")}

MaskTokens ==
    { <<"?", "l">>, <<"?", "u">>, <<"?", "d">>, <<"?", "s">>, <<"?", "a">>,
      <<"?", "z">>, <<"?">>, <<"a">>, <<"b">> }

RECURSIVE TokenSeqs(_)
TokenSeqs(n) ==
    IF n = 0 THEN {<<>>}
    ELSE TokenSeqs(n - 1) \cup {t \o m : t \in MaskTokens, m \in TokenSeqs(n - 1)}

Masks == TokenSeqs(MaxMaskTokens)

BruteCharsets == {<<>>, <<"a", "b">>, <<"a", "z">>, <<"a", "b", "c">>}

\* the configurations whose generators are drained
GenConfigs ==
    {AttackConfig("brute_force", cs, lo, hi, None, None,
                  default_max_attempts, default_speed_limit) :
        cs \in BruteCharsets, lo \in 0..MaxLen, hi \in 0..MaxLen}
    \cup {AttackConfig("mask", <<"a", "b">>, 1, 2, None, m,
                       default_max_attempts, default_speed_limit) :
             m \in {None} \cup {Some(x) : x \in Masks}}
    \cup {AttackConfig(mode, default_charset, 1, 8, wl, None,
                       default_max_attempts, default_speed_limit) :
             mode \in {"dictionary", "hybrid"}, wl \in WordlistPaths}
    \cup {AttackConfig("credential_stuffing", default_charset, 1, 8, None, None,
                       default_max_attempts, default_speed_limit)}

SimMasks ==
    {None, Some(<<>>), Some(<<"?", "z">>), Some(<<"a", "?", "z", "b">>),
     Some(<<"?", "d">>), Some(<<"z", "?">>), Some(<<"?", "?", "a">>)}

SimShapes ==
    {<<"brute_force", cs, lo, hi, None, None>> :
        cs \in {<<>>, <<"a", "z">>}, lo \in 0..MaxLen, hi \in 0..MaxLen}
    \cup {<<"mask", <<"a", "z">>, 1, 1, None, m>> : m \in SimMasks}
    \cup {<<"dictionary", default_charset, 1, 8, wl, None>> : wl \in WordlistPaths}
    \cup {<<"hybrid", default_charset, 1, 8, wl, None>> :
             wl \in {None, Some("words.txt"), Some("locked.txt")}}
    \cup {<<"credential_stuffing", default_charset, 1, 8, None, None>>,
          <<"unsupported", default_charset, 1, 8, None, None>>}

\* the configurations simulate_attack is run with
SimConfigs ==
    {AttackConfig(s[1], s[2], s[3], s[4], s[5], s[6], ma, sl) :
        s \in SimShapes, ma \in 0..MaxAttempts, sl \in 1..MaxSpeed}

SimTargets ==
    { <<>>, <<"a">>, <<"z">>, <<"z", "z">>, <<"a", "z">>,
      <<"1", "2", "3", "4", "5", "6">>, <<"#">> }

---------------------------------------------------------------------------
(* AttackSimulator *)

\* AttackResult(...) with password_found always set
AttackResultAlwaysPassword(success, tgt, n, mode, by_limit) ==
    [success |-> success, password_found |-> Some(tgt), attempts |-> n,
     mode |-> mode, stopped_by_limit |-> by_limit]

AttackResult(success, tgt, n, mode, by_limit) ==
    [success |-> success,
     password_found |-> IF success THEN Some(tgt) ELSE None,
     attempts |-> n, mode |-> mode, stopped_by_limit |-> by_limit]

\* __init__
Init ==
    /\ config \in SimConfigs
    /\ target \in SimTargets
    /\ pc = "idle"
    /\ gen = Dead
    /\ candidate = None
    /\ attempts = 0
    /\ found = FALSE
    /\ stopped_by_limit = FALSE
    /\ stop_requested = FALSE
    /\ sleeps = 0
    /\ compared = 0
    /\ outcome = "Idle"
    /\ result = None
    /\ stopDuring = FALSE
    /\ afterStop = 0
    /\ prevRun = None
    /\ yielded = <<>>
    /\ engine = NoCall
    /\ analysis = NoCall

\* simulate_attack, up to the loop: the locals and the dispatch on config.mode.
\* Init draws the arguments; the caller invokes again with the same ones.
Start ==
    /\ pc = "idle"
    /\ prevRun' = IF outcome # "Idle"
                  THEN Some([result |-> result, stopped |-> stopDuring])
                  ELSE None
    /\ attempts' = 0
    /\ found' = FALSE
    /\ stopped_by_limit' = FALSE
    /\ sleeps' = 0
    /\ compared' = 0
    /\ stopDuring' = FALSE
    /\ afterStop' = 0
    /\ candidate' = None
    /\ IF config.mode \in AttackModes
       THEN /\ gen' = generator_first(config)
            /\ outcome' = "Running"
            /\ pc' = "next"
            /\ UNCHANGED result
       ELSE /\ gen' = Dead
            /\ outcome' = "ValueError"
            /\ pc' = "idle"
            /\ result' = None
    /\ UNCHANGED <<config, target, stop_requested, yielded>>
    /\ UNCHANGED others

\* for candidate in candidates
FetchNext ==
    /\ pc = "next"
    /\ IF gen.live
       THEN /\ candidate' = Some(generator_value(config, gen))
            /\ gen' = generator_step(config, gen)
            /\ pc' = "throttle"
            /\ UNCHANGED <<outcome, result>>
       ELSE IF gen.raised
       THEN /\ outcome' = "OSError"
            /\ pc' = "idle"
            /\ result' = None
            /\ UNCHANGED <<candidate, gen>>
       ELSE /\ outcome' = "Exhausted"
            /\ pc' = "return"
            /\ UNCHANGED <<candidate, gen, result>>
    /\ UNCHANGED <<config, target, attempts, found, stopped_by_limit,
                   stop_requested, sleeps, compared, stopDuring,
                   afterStop, prevRun, yielded>>
    /\ UNCHANGED others

\* a rate limit that sleeps before the first candidate as well
must_sleep_from_zero(n, speed_limit) == n % speed_limit = 0

must_sleep(n, speed_limit) == n > 0 /\ n % speed_limit = 0

\* the rate limiting
Throttle ==
    /\ pc = "throttle"
    /\ sleeps' = IF must_sleep(attempts, config.speed_limit) THEN sleeps + 1
                 ELSE sleeps
    /\ pc' = "compare"
    /\ UNCHANGED <<config, target, gen, candidate, attempts, found,
                   stopped_by_limit, stop_requested, compared, outcome, result,
                   stopDuring, afterStop, prevRun, yielded>>
    /\ UNCHANGED others

\* a comparison that counts the attempt before it compares
CompareCountsFirst ==
    /\ pc = "compare"
    /\ compared' = compared + 1
    /\ afterStop' = IF stopDuring THEN afterStop + 1 ELSE afterStop
    /\ attempts' = attempts + 1
    /\ IF candidate[1] = target
       THEN /\ found' = TRUE
            /\ outcome' = "Found"
            /\ pc' = "return"
       ELSE /\ pc' = "limit"
            /\ UNCHANGED <<found, outcome>>
    /\ UNCHANGED <<config, target, gen, candidate, stopped_by_limit,
                   stop_requested, sleeps, result, stopDuring, prevRun, yielded>>
    /\ UNCHANGED others

\* the comparison with the target, and attempts += 1
Compare ==
    /\ pc = "compare"
    /\ compared' = compared + 1
    /\ afterStop' = IF stopDuring THEN afterStop + 1 ELSE afterStop
    /\ IF candidate[1] = target
       THEN /\ found' = TRUE
            /\ outcome' = "Found"
            /\ pc' = "return"
            /\ UNCHANGED attempts
       ELSE /\ attempts' = attempts + 1
            /\ pc' = "limit"
            /\ UNCHANGED <<found, outcome>>
    /\ UNCHANGED <<config, target, gen, candidate, stopped_by_limit,
                   stop_requested, sleeps, result, stopDuring, prevRun, yielded>>
    /\ UNCHANGED others

\* a limit that stops one attempt early
limit_reached_early(n, max_attempts) == n + 1 >= max_attempts

\* a limit that lets one more attempt through
limit_reached_late(n, max_attempts) == n > max_attempts

limit_reached(n, max_attempts) == n >= max_attempts

CheckLimit ==
    /\ pc = "limit"
    /\ IF limit_reached(attempts, config.max_attempts)
       THEN /\ stopped_by_limit' = TRUE
            /\ outcome' = "LimitReached"
            /\ pc' = "return"
       ELSE /\ pc' = "stopcheck"
            /\ UNCHANGED <<stopped_by_limit, outcome>>
    /\ UNCHANGED <<config, target, gen, candidate, attempts, found,
                   stop_requested, sleeps, compared, result, stopDuring,
                   afterStop, prevRun, yielded>>
    /\ UNCHANGED others

\* a stop flag read only on every second attempt
stop_seen_every_other(flag, n) == flag /\ n % 2 = 0

stop_seen(flag, n) == flag

CheckStop ==
    /\ pc = "stopcheck"
    /\ IF stop_seen(stop_requested, attempts)
       THEN /\ outcome' = "Cancelled"
            /\ pc' = "return"
       ELSE /\ pc' = "next"
            /\ UNCHANGED outcome
    /\ UNCHANGED <<config, target, gen, candidate, attempts, found,
                   stopped_by_limit, stop_requested, sleeps, compared, result,
                   stopDuring, afterStop, prevRun, yielded>>
    /\ UNCHANGED others

\* return AttackResult(...)
Return ==
    /\ pc = "return"
    /\ result' = Some(AttackResult(found, target, attempts, config.mode,
                                   stopped_by_limit))
    /\ pc' = "idle"
    /\ UNCHANGED <<config, target, gen, candidate, attempts, found,
                   stopped_by_limit, stop_requested, sleeps, compared, outcome,
                   stopDuring, afterStop, prevRun, yielded>>
    /\ UNCHANGED others

\* stop(), from the caller's side at any moment
Stop ==
    /\ stop_requested' = TRUE
    /\ stopDuring' = IF pc = "idle" THEN stopDuring ELSE TRUE
    /\ UNCHANGED <<config, target, pc, gen, candidate, attempts, found,
                   stopped_by_limit, sleeps, compared, outcome, result,
                   afterStop, prevRun, yielded>>
    /\ UNCHANGED others

Next ==
    \/ Start
    \/ FetchNext
    \/ Throttle
    \/ Compare
    \/ CheckLimit
    \/ CheckStop
    \/ Return
    \/ Stop

Spec == Init /\ [][Next]_vars

\* The same program with its scheduling: a call that has begun keeps taking
\* the steps of its loop until it returns or raises, while the caller may or
\* may not call again and may or may not call stop().  The targets are the
\* empty password, one that brute force and masks reach late and one that no
\* mode yields.
FairInit == Init /\ target \in {<<>>, <<"z", "z">>, <<"#">>}

FairSpec ==
    /\ FairInit
    /\ [][Next]_vars
    /\ WF_vars(FetchNext \/ Throttle \/ Compare \/ CheckLimit \/ CheckStop \/ Return)

---------------------------------------------------------------------------
(* A generator drained on its own, candidate by candidate *)

GenInit ==
    /\ config \in GenConfigs
    /\ target = <<>>
    /\ pc = "drain"
    /\ gen = generator_first(config)
    /\ candidate = None
    /\ attempts = 0
    /\ found = FALSE
    /\ stopped_by_limit = FALSE
    /\ stop_requested = FALSE
    /\ sleeps = 0
    /\ compared = 0
    /\ outcome = "Idle"
    /\ result = None
    /\ stopDuring = FALSE
    /\ afterStop = 0
    /\ prevRun = None
    /\ yielded = <<>>
    /\ engine = NoCall
    /\ analysis = NoCall

\* next(candidates): a yield, or the exception the generator's step raises
Yield ==
    /\ pc = "drain"
    /\ gen.live \/ gen.raised
    /\ Len(yielded) < MaxYield
    /\ IF gen.raised
       THEN /\ pc' = "raised"
            /\ UNCHANGED <<yielded, gen>>
       ELSE /\ yielded' = Append(yielded, [value |-> generator_value(config, gen),
                                           phase |-> gen.phase, idx |-> gen.idx])
            /\ gen' = generator_step(config, gen)
            /\ UNCHANGED pc
    /\ UNCHANGED <<config, target, candidate, attempts, found,
                   stopped_by_limit, stop_requested, sleeps, compared, outcome,
                   result, stopDuring, afterStop, prevRun>>
    /\ UNCHANGED others

GenNext == Yield

GenSpec == GenInit /\ [][GenNext]_vars

---------------------------------------------------------------------------
(* What the claims about simulate_attack speak of *)

\* the current invocation has returned its AttackResult
Returned == pc = "idle" /\ outcome \in {"Found", "Exhausted", "LimitReached", "Cancelled"}

\* 0-based index of the first candidate equal to tgt among the first `limit`
\* candidates from g on (k counts the candidates passed), -1 when there is none
RECURSIVE first_index_from(_, _, _, _, _)
first_index_from(cfg, g, tgt, k, limit) ==
    IF ~g.live \/ k >= limit THEN -1
    ELSE IF generator_value(cfg, g) = tgt THEN k
    ELSE first_index_from(cfg, generator_step(cfg, g), tgt, k + 1, limit)

FirstIndex(cfg, tgt, limit) ==
    first_index_from(cfg, generator_first(cfg), tgt, 0, limit)

\* the number of candidates of the sequence, counted up to `limit`
RECURSIVE count_from(_, _, _, _)
count_from(cfg, g, k, limit) ==
    IF ~g.live \/ k >= limit THEN k
    ELSE count_from(cfg, generator_step(cfg, g), k + 1, limit)

CountUpTo(cfg, limit) == count_from(cfg, generator_first(cfg), 0, limit)

\* C1: when the target first occurs at 0-based index r < max_attempts and
\* stop() was never called, the returned result has success = true,
\* password_found = target and attempts = r.
C1_FoundAtRank ==
    (Returned /\ ~stop_requested
        /\ FirstIndex(config, target, config.max_attempts) >= 0)
    => /\ result[1].success
       /\ result[1].password_found = Some(target)
       /\ result[1].attempts = FirstIndex(config, target, config.max_attempts)

\* the spec's example: brute force over "az", lengths 1..2, target "zz", rank 5
C1_Witness ==
    /\ Returned /\ ~stop_requested
    /\ config.mode = "brute_force" /\ config.charset = <<"a", "z">>
    /\ config.min_length = 1 /\ config.max_length = 2
    /\ target = <<"z", "z">>
    /\ result[1].success /\ result[1].attempts = 5

\* C2 (as claimed): every returned result has attempts <= max_attempts, and
\* stopped_by_limit = true comes with attempts = max_attempts and success = false.
C2_AttemptCeiling ==
    Returned =>
       /\ result[1].attempts <= config.max_attempts
       /\ result[1].stopped_by_limit =>
             (result[1].attempts = config.max_attempts /\ ~result[1].success)

\* C3: at most one candidate is compared after stop() is called during an
\* invocation, the loop takes no further candidate after that one, and the
\* returned attempts is the number of non-matching candidates compared.
C3_StopLatency ==
    /\ afterStop <= 1
    /\ (afterStop = 1 /\ outcome = "Running") => pc \in {"limit", "stopcheck"}
    /\ (stopDuring /\ outcome = "Running" /\ pc = "next") => afterStop = 0
    /\ Returned =>
          result[1].attempts = compared - (IF result[1].success THEN 1 ELSE 0)

\* stop() arrived after the flag was read: one more candidate, then Cancelled
C3_Witness ==
    /\ Returned /\ outcome = "Cancelled"
    /\ stopDuring /\ afterStop = 1 /\ compared >= 2
    /\ result[1].attempts = compared

\* C4 (as claimed): an invocation ends Cancelled only if stop() was called
\* during it, and two successive invocations with the same arguments, neither
\* stopped while it ran, return the same success, attempts and stopped_by_limit.
C4_CancelledOnlyByOwnStop ==
    /\ outcome = "Cancelled" => stopDuring
    /\ (Returned /\ ~stopDuring /\ prevRun # None /\ prevRun[1].result # None
           /\ ~prevRun[1].stopped)
       => /\ result[1].success = prevRun[1].result[1].success
          /\ result[1].attempts = prevRun[1].result[1].attempts
          /\ result[1].stopped_by_limit = prevRun[1].result[1].stopped_by_limit

\* C5: a returned result belongs to exactly one terminal state: success only
\* for Found, stopped_by_limit only for LimitReached, never both, and
\* password_found is the target when success and absent otherwise.
C5_TerminalStates ==
    /\ pc = "return" => outcome \in {"Found", "Exhausted", "LimitReached", "Cancelled"}
    /\ pc \in {"next", "throttle", "compare", "limit", "stopcheck"}
          => (outcome = "Running" /\ ~found /\ ~stopped_by_limit)
    /\ Returned =>
          /\ result[1].success <=> outcome = "Found"
          /\ result[1].stopped_by_limit <=> outcome = "LimitReached"
          /\ ~(result[1].success /\ result[1].stopped_by_limit)
          /\ result[1].password_found =
                IF result[1].success THEN Some(target) ELSE None

C5_Witness ==
    /\ Returned /\ outcome = "LimitReached"
    /\ result[1].stopped_by_limit /\ ~result[1].success
    /\ result[1].password_found = None /\ result[1].attempts >= 2

\* C6: when the sequence has N < max_attempts candidates, none of them the
\* target, and stop() was never called, the result is success = false,
\* stopped_by_limit = false, password_found absent and attempts = N.
C6_Exhausted ==
    (Returned /\ ~stop_requested
        /\ CountUpTo(config, config.max_attempts) < config.max_attempts
        /\ FirstIndex(config, target, config.max_attempts) = -1)
    => /\ ~result[1].success
       /\ ~result[1].stopped_by_limit
       /\ result[1].password_found = None
       /\ result[1].attempts = CountUpTo(config, config.max_attempts)

\* the three words of words.txt, none of them the target
C6_Witness ==
    /\ Returned /\ ~stop_requested /\ outcome = "Exhausted"
    /\ config.mode = "dictionary" /\ config.wordlist_path = Some("words.txt")
    /\ result[1].attempts = 3

---------------------------------------------------------------------------
(* What the claims about the generators speak of *)

Drained == pc = "drain" /\ ~gen.live /\ ~gen.raised

RECURSIVE Pow(_, _)
Pow(b, e) == IF e = 0 THEN 1 ELSE b * Pow(b, e - 1)

RECURSIVE SumPow(_, _, _)
SumPow(b, lo, hi) == IF lo > hi THEN 0 ELSE Pow(b, lo) + SumPow(b, lo + 1, hi)

RECURSIVE ProductOfSizes(_)
ProductOfSizes(sets) ==
    IF sets = <<>> THEN 1 ELSE Len(Head(sets)) * ProductOfSizes(Tail(sets))

\* index tuple a comes before b when the leftmost position varies slowest
LexLess(a, b) ==
    /\ Len(a) = Len(b)
    /\ \E j \in 1..Len(a) : a[j] < b[j] /\ \A i \in 1..(j - 1) : a[i] = b[i]

\* the yields are in product order, each index tuple at most once
InProductOrder ==
    \A k \in 1..(Len(yielded) - 1) :
        \/ yielded[k].phase < yielded[k + 1].phase
        \/ /\ yielded[k].phase = yielded[k + 1].phase
           /\ LexLess(yielded[k].idx, yielded[k + 1].idx)

Values == [k \in 1..Len(yielded) |-> yielded[k].value]

\* C7: brute force yields strings over charset of each length min_length to
\* max_length, one per index tuple, by increasing length and within a length
\* in product order with the leftmost position slowest; all of them once the
\* generator is exhausted; "ab" with lengths 1..2 yields a, b, aa, ab, ba, bb.
C7_BruteForceOrder ==
    (pc = "drain" /\ config.mode = "brute_force") =>
       /\ \A k \in 1..Len(yielded) :
             /\ yielded[k].phase \in config.min_length..config.max_length
             /\ Len(yielded[k].value) = yielded[k].phase
             /\ Len(yielded[k].idx) = yielded[k].phase
             /\ \A i \in 1..yielded[k].phase :
                   /\ yielded[k].idx[i] \in 1..Len(config.charset)
                   /\ yielded[k].value[i] = config.charset[yielded[k].idx[i]]
       /\ InProductOrder
       /\ Drained =>
             Len(yielded) = SumPow(Len(config.charset), config.min_length,
                                   config.max_length)
       /\ (Drained /\ config.charset = <<"a", "b">> /\ config.min_length = 1
              /\ config.max_length = 2)
          => Values = << <<"a">>, <<"b">>, <<"a", "a">>, <<"a", "b">>,
                         <<"b", "a">>, <<"b", "b">> >>

C7_Witness ==
    /\ Drained /\ config.mode = "brute_force"
    /\ config.charset = <<"a", "b">> /\ config.min_length = 1
    /\ config.max_length = 2 /\ Len(yielded) = 6
    /\ yielded[4].value = <<"a", "b">> /\ yielded[5].value = <<"b", "a">>

\* The mask grammar as the specification gives it: ?l ?u ?d ?s ?a are one
\* position each with the class's characters, any other character is a
\* position holding that character alone.
MaskClass(c) ==
    CASE c = "l" -> ascii_lowercase [] c = "u" -> ascii_uppercase
      [] c = "d" -> digits [] c = "s" -> special_chars [] c = "a" -> any_chars

RECURSIVE MaskPositionsFrom(_, _)
MaskPositionsFrom(mask, i) ==
    IF i > Len(mask) THEN <<>>
    ELSE IF mask[i] = "?" /\ i + 1 <= Len(mask)
            /\ mask[i + 1] \in {"l", "u", "d", "s", "a"}
    THEN <<[set |-> MaskClass(mask[i + 1]), literal |-> FALSE]>>
             \o MaskPositionsFrom(mask, i + 2)
    ELSE <<[set |-> <<mask[i]>>, literal |-> TRUE]>>
             \o MaskPositionsFrom(mask, i + 1)

MaskPositions(mask) == MaskPositionsFrom(mask, 1)

MaskSets(mask) ==
    [i \in 1..Len(MaskPositions(mask)) |-> MaskPositions(mask)[i].set]

\* the mask is made of recognized placeholders and literal characters only:
\* no position is a literal "?"
RecognizedMask(mask) ==
    /\ mask # <<>>
    /\ \A i \in 1..Len(MaskPositions(mask)) :
          ~(MaskPositions(mask)[i].literal /\ MaskPositions(mask)[i].set = <<"?">>)

MaskDrain == pc = "drain" /\ config.mode = "mask" /\ config.mask # None

\* C8: a mask of recognized placeholders and literals yields the Cartesian
\* product of its positions' sets in left-to-right order: every candidate has
\* one character per position, taken from that position's set, the candidates
\* come in product order, and there are as many as the product of the sizes.
C8_MaskProduct ==
    (MaskDrain /\ RecognizedMask(config.mask[1])) =>
       LET sets == MaskSets(config.mask[1])
       IN  /\ \A k \in 1..Len(yielded) :
                 /\ Len(yielded[k].value) = Len(sets)
                 /\ Len(yielded[k].idx) = Len(sets)
                 /\ \A i \in 1..Len(sets) :
                       /\ yielded[k].idx[i] \in 1..Len(sets[i])
                       /\ yielded[k].value[i] = sets[i][yielded[k].idx[i]]
           /\ InProductOrder
           /\ Drained => Len(yielded) = ProductOfSizes(sets)

\* "?d?d": 10 * 10 candidates of 2 digits
C8_Witness ==
    /\ MaskDrain /\ Drained
    /\ config.mask[1] = <<"?", "d", "?", "d">>
    /\ Len(yielded) = 100
    /\ yielded[11].value = <<"1", "0">>

\* C9 (as claimed): every mask character outside a recognized placeholder is
\* a literal position, an unrecognized or trailing "?" included, so every
\* candidate has one character per position and carries the literals in place.
C9_LiteralsKept ==
    (MaskDrain /\ config.mask[1] # <<>>) =>
       LET pos == MaskPositions(config.mask[1])
       IN  \A k \in 1..Len(yielded) :
              /\ Len(yielded[k].value) = Len(pos)
              /\ \A i \in 1..Len(pos) :
                    pos[i].literal => yielded[k].value[i] = pos[i].set[1]

\* C10 (as claimed): mask mode with a non-empty mask from which the parse
\* derives no position at all is rejected: no candidate is yielded (not the
\* empty string either), none is compared and no AttackResult is returned.
C10_EmptyPatternRejected ==
    (config.mode = "mask" /\ ~mask_absent(config)
        /\ parse_mask(config.mask[1]) = <<>>)
    => /\ candidate = None
       /\ compared = 0
       /\ result = None

\* C11 (as claimed): brute force, and mask mode falling back to it, with
\* min_length > max_length or an empty charset fails with an error the
\* caller sees: no AttackResult is ever returned for such a configuration.
C11_BadRangeRejected ==
    ((config.mode = "brute_force" \/ (config.mode = "mask" /\ mask_absent(config)))
        /\ (config.min_length > config.max_length \/ config.charset = <<>>))
    => result = None

---------------------------------------------------------------------------
(* What the claims about the hybrid and dictionary generators speak of *)

HybridDrain ==
    pc \in {"drain", "raised"} /\ config.mode = "hybrid" /\ ~open_raises(config)

\* a -> 4, e -> 3, i -> 1, o -> 0, s -> 5, t -> 7, in either case
Leet(c) ==
    CASE c \in {"a", "A"} -> "4" [] c \in {"e", "E"} -> "3"
      [] c \in {"i", "I"} -> "1" [] c \in {"o", "O"} -> "0"
      [] c \in {"s", "S"} -> "5" [] c \in {"t", "T"} -> "7"
      [] OTHER -> c

LeetOf(word) == [i \in 1..Len(word) |-> Leet(word[i])]

Suffixes ==
    << <<"1">>, <<"1", "2", "3">>, <<"2", "0", "2", "4">>, <<"2", "0", "2", "5">>,
       <<"!">> >>

\* the j-th candidate of a word: four case forms, ten suffixed forms, l33t
Variant(word, j) ==
    CASE j = 1 -> word
      [] j = 2 -> str_capitalize(word)
      [] j = 3 -> str_upper(word)
      [] j = 4 -> str_lower(word)
      [] j \in 5..14 ->
           IF (j - 5) % 2 = 0
           THEN word \o Suffixes[(j - 5) \div 2 + 1]
           ELSE str_capitalize(word) \o Suffixes[(j - 5) \div 2 + 1]
      [] j = 15 -> LeetOf(word)

VariantsOf(word) ==
    [j \in 1..(IF LeetOf(word) # word THEN 15 ELSE 14) |-> Variant(word, j)]

RECURSIVE AllVariants(_)
AllVariants(words) ==
    IF words = <<>> THEN <<>>
    ELSE VariantsOf(Head(words)) \o AllVariants(Tail(words))

\* C12: hybrid mode yields, word by word in dictionary order, the word, its
\* capitalized, upper and lower forms, then word+suffix and capitalized+suffix
\* for each of 1, 123, 2024, 2025, !, and last the l33t form if and only if
\* it differs from the word: 14 or 15 candidates per word, never interleaved.
C12_HybridOrder ==
    HybridDrain =>
       LET all == AllVariants(dictionary_words(config))
       IN  /\ Len(yielded) <= Len(all)
           /\ Values = SubSeq(all, 1, Len(yielded))
           /\ (Drained => Len(yielded) = Len(all))

\* the built-in list: "password" gives 15 candidates ending in p455w0rd,
\* "123456" gives 14, so "12345678" begins at the 30th
C12_Witness ==
    /\ HybridDrain /\ config.wordlist_path = None
    /\ Len(yielded) = 30
    /\ yielded[2].value = <<"P", "a", "s", "s", "w", "o", "r", "d">>
    /\ yielded[15].value = <<"p", "4", "5", "5", "w", "0", "r", "d">>
    /\ yielded[16].value = <<"1", "2", "3", "4", "5", "6">>
    /\ yielded[29].value = <<"1", "2", "3", "4", "5", "6", "!">>
    /\ yielded[30].value = <<"1", "2", "3", "4", "5", "6", "7", "8">>


DictionaryDrain == pc \in {"drain", "raised"} /\ config.mode = "dictionary"

\* a line without its leading and trailing whitespace
Trimmed(line) ==
    LET inked == {i \in 1..Len(line) : line[i] \notin whitespace}
    IN  IF inked = {} THEN <<>>
        ELSE SubSeq(line, CHOOSE i \in inked : \A j \in inked : i <= j,
                          CHOOSE i \in inked : \A j \in inked : i >= j)

RECURSIVE NonBlankTrimmed(_)
NonBlankTrimmed(lines) ==
    IF lines = <<>> THEN <<>>
    ELSE (IF Trimmed(Head(lines)) # <<>> THEN <<Trimmed(Head(lines))>> ELSE <<>>)
             \o NonBlankTrimmed(Tail(lines))

\* the file is there and open() succeeds on it
Readable(path) == path # None /\ path[1] \in ExistingFiles \ UnreadableFiles

\* C13 (as claimed): dictionary mode never fails because of the wordlist.
\* Without a path, or with a path that is missing or unreadable, it yields
\* exactly the built-in list; with a readable file it yields the file's
\* non-blank lines, trimmed, in file order, and none of the built-in words.
C13_WordlistFallback ==
    DictionaryDrain =>
       LET expected == IF Readable(config.wordlist_path)
                       THEN NonBlankTrimmed(FileLines(config.wordlist_path[1]))
                       ELSE default_wordlist
       IN  /\ pc # "raised"
           /\ Len(yielded) <= Len(expected)
           /\ Values = SubSeq(expected, 1, Len(yielded))
           /\ (Drained => Len(yielded) = Len(expected))

---------------------------------------------------------------------------
(* HashEngine (core/hash_engine.py)                                        *)
(*                                                                         *)
(* The key-derivation primitives are modelled as ideal: a digest is the    *)
(* triple of primitive, password and salt, so two digests are equal        *)
(* exactly when all three are.  An encoded hash_value carries a format tag, *)
(* the salt when the encoding embeds it, and the digest.  time_ms and the   *)
(* parameters of a HashResult are left out.                                 *)

Algorithms == {"argon2id", "scrypt", "pbkdf2_sha256", "pbkdf2_sha512", "bcrypt"}

\* what a caller can pass for an algorithm: a member, or any other value
AlgorithmArgs == Algorithms \cup {"unsupported"}

GPU_PERFORMANCE ==
    [a \in Algorithms |->
        CASE a = "argon2id" -> 50000
          [] a = "scrypt" -> 100000
          [] a = "pbkdf2_sha256" -> 10000000
          [] a = "pbkdf2_sha512" -> 5000000
          [] a = "bcrypt" -> 500000]

cpu_hashes_per_second == 1000

\* secrets.token_bytes(16), bcrypt.gensalt, argon2's own salt
Salts == {"s1", "s2"}

derive(kdf, password, salt) == <<kdf, password, salt>>

HashResult(algorithm, hash_value, salt) ==
    [algorithm |-> algorithm, hash_value |-> hash_value, salt |-> salt]

_hash_argon2id(password, salt) ==
    HashResult("argon2id",
               [format |-> "argon2id", salt |-> salt,
                digest |-> derive("argon2id", password, salt)],
               None)

_hash_scrypt(password, salt) ==
    HashResult("scrypt",
               [format |-> "hex", salt |-> "",
                digest |-> derive("scrypt", password, salt)],
               Some(salt))

_hash_pbkdf2(password, hash_algo, salt) ==
    HashResult(IF hash_algo = "SHA256" THEN "pbkdf2_sha256" ELSE "pbkdf2_sha512",
               [format |-> "hex", salt |-> "",
                digest |-> derive(hash_algo, password, salt)],
               Some(salt))

_hash_bcrypt(password, salt) ==
    HashResult("bcrypt",
               [format |-> "bcrypt", salt |-> salt,
                digest |-> derive("bcrypt", password, salt)],
               None)

hash_password(password, algorithm, salt) ==
    CASE algorithm = "argon2id" -> Ret(_hash_argon2id(password, salt))
      [] algorithm = "scrypt" -> Ret(_hash_scrypt(password, salt))
      [] algorithm = "pbkdf2_sha256" -> Ret(_hash_pbkdf2(password, "SHA256", salt))
      [] algorithm = "pbkdf2_sha512" -> Ret(_hash_pbkdf2(password, "SHA512", salt))
      [] algorithm = "bcrypt" -> Ret(_hash_bcrypt(password, salt))
      [] OTHER -> Raise("ValueError")

\* argon2.PasswordHasher.verify: True, or an exception
argon2_verify(hash_value, password) ==
    IF hash_value.format # "argon2id" THEN Raise("InvalidHashError")
    ELSE IF hash_value.digest = derive("argon2id", password, hash_value.salt)
    THEN Ret(TRUE)
    ELSE Raise("VerifyMismatchError")

\* bcrypt.checkpw: a boolean, or ValueError("Invalid salt")
bcrypt_checkpw(password, hash_value) ==
    IF hash_value.format # "bcrypt" THEN Raise("ValueError")
    ELSE Ret(hash_value.digest = derive("bcrypt", password, hash_value.salt))

\* the body of verify_password's try
verify_try(password, hash_value, algorithm) ==
    CASE algorithm = "argon2id" ->
             IF argon2_verify(hash_value, password).raised # "no"
             THEN argon2_verify(hash_value, password)
             ELSE Ret(TRUE)
      [] algorithm = "bcrypt" -> bcrypt_checkpw(password, hash_value)
      [] OTHER -> Ret(TRUE)

\* a handler that lets everything but a mismatch through
except_VerifyMismatch(r) ==
    IF r.raised = "VerifyMismatchError" THEN Ret(FALSE) ELSE r

\* except Exception: return False
except_Exception(r) == IF r.raised # "no" THEN Ret(FALSE) ELSE r

verify_password(password, hash_value, algorithm) ==
    except_Exception(verify_try(password, hash_value, algorithm))


(* A Python int has no width.  It is kept as its base-100 digits, least    *)
(* significant first and without leading zeros (0 is the empty sequence),   *)
(* so that charset_size ** password_length is exact at any size.            *)

Base == 100

RECURSIVE to_big(_)
to_big(n) == IF n = 0 THEN <<>> ELSE <<n % Base>> \o to_big(n \div Base)

RECURSIVE mul_carry(_, _, _)
mul_carry(a, k, carry) ==
    IF a = <<>> THEN to_big(carry)
    ELSE <<(a[1] * k + carry) % Base>>
             \o mul_carry(Tail(a), k, (a[1] * k + carry) \div Base)

\* a * k, for 0 <= k < 10^7
big_mul(a, k) == IF k = 0 THEN <<>> ELSE mul_carry(a, k, 0)

RECURSIVE strip(_)
strip(a) ==
    IF a # <<>> /\ a[Len(a)] = 0 THEN strip(SubSeq(a, 1, Len(a) - 1)) ELSE a

\* the digits of a from the i-th up, modulo d
RECURSIVE rem_above(_, _, _)
rem_above(a, i, d) ==
    IF i > Len(a) THEN 0 ELSE (rem_above(a, i + 1, d) * Base + a[i]) % d

\* a // d and a % d, for 0 < d <= 10^7
big_div(a, d) ==
    strip([i \in 1..Len(a) |-> (rem_above(a, i + 1, d) * Base + a[i]) \div d])

big_mod(a, d) == rem_above(a, 1, d)

\* a < b
big_less(a, b) ==
    \/ Len(a) < Len(b)
    \/ /\ Len(a) = Len(b)
       /\ \E i \in 1..Len(a) :
             a[i] < b[i] /\ \A j \in (i + 1)..Len(a) : a[j] = b[j]

\* b ** e
RECURSIVE int_pow(_, _)
int_pow(b, e) == IF e = 0 THEN <<1>> ELSE big_mul(int_pow(b, e - 1), b)

\* int / int raises OverflowError when the quotient rounds to 2^1024 or
\* more, that is from 2^1024 - 2^970 on: the digits of that number
float_limit ==
    <<92, 77, 49, 74, 41, 90, 77, 1, 88, 42, 30, 9, 8, 95, 69, 59, 15, 71,
       42, 43, 70, 10, 55, 36, 44, 84, 16, 74, 90, 71, 92, 52, 47, 36, 49, 83,
       60, 98, 81, 14, 29, 84, 22, 96, 95, 66, 13, 57, 55, 98, 6, 70, 2, 73,
       75, 44, 76, 31, 15, 71, 17, 58, 84, 54, 38, 27, 76, 36, 38, 8, 7, 0,
       2, 89, 90, 81, 6, 82, 5, 15, 67, 88, 74, 65, 30, 26, 40, 40, 19, 85,
       47, 55, 55, 46, 9, 91, 87, 28, 69, 16, 64, 28, 30, 63, 9, 7, 72, 58,
       77, 79, 1, 49, 66, 94, 50, 47, 76, 92, 82, 96, 44, 4, 98, 78, 37, 17,
       36, 69, 82, 37, 0, 71, 32, 41, 93, 79, 50, 41, 3, 53, 40, 71, 89, 72,
       93, 7, 58, 31, 62, 48, 13, 93, 76, 79, 1>>

\* n.bit_length()
RECURSIVE bit_length(_)
bit_length(n) == IF n = 0 THEN 0 ELSE 1 + bit_length(n \div 2)

\* b ** e // 2 / d is past float_limit by the bit lengths alone: b ** e is at
\* least 2 ** (e * (b.bit_length() - 1)) and 2 * d * float_limit is below
\* 2 ** (1025 + d.bit_length()).  A keyspace of that size is not written out.
surely_overflows(b, e, d) ==
    b >= 2 /\ e * (bit_length(b) - 1) >= 1025 + bit_length(d)

(* A float number of seconds is kept exactly, as whole + num / den with    *)
(* 0 <= num < den; the rounding of the division to a float is not          *)
(* modelled.                                                               *)

Seconds(whole, num, den) == [whole |-> whole, num |-> num, den |-> den]

\* n / d of an int n and a small positive d
true_div(n, d) ==
    LET whole == big_div(n, d)
    IN  IF big_less(whole, float_limit)
        THEN Ret(Seconds(whole, big_mod(n, d), d))
        ELSE Raise("OverflowError")

\* seconds < limit, for a whole limit
less_than(seconds, limit) == big_less(seconds.whole, limit)

seconds_per_year == 31536000

year == to_big(seconds_per_year)
thousand_years == big_mul(year, 1000)
million_years == big_mul(thousand_years, 1000)
billion_years == big_mul(million_years, 1000)

\* _format_time with the century band tested before the year band
_format_time_century_first(seconds) ==
    IF less_than(seconds, to_big(1)) THEN [unit |-> "milliseconds", decimals |-> 2]
    ELSE IF less_than(seconds, to_big(60)) THEN [unit |-> "seconds", decimals |-> 2]
    ELSE IF less_than(seconds, to_big(3600)) THEN [unit |-> "minutes", decimals |-> 2]
    ELSE IF less_than(seconds, to_big(86400)) THEN [unit |-> "hours", decimals |-> 2]
    ELSE IF less_than(seconds, big_mul(year, 100))
    THEN [unit |-> "years", decimals |-> 2]
    ELSE IF less_than(seconds, year) THEN [unit |-> "days", decimals |-> 2]
    ELSE IF less_than(seconds, thousand_years) THEN [unit |-> "years", decimals |-> 0]
    ELSE IF less_than(seconds, million_years)
    THEN [unit |-> "thousand years", decimals |-> 0]
    ELSE IF less_than(seconds, billion_years)
    THEN [unit |-> "million years", decimals |-> 0]
    ELSE [unit |-> "billion years", decimals |-> 0]

\* _format_time: the unit of the text and the decimals of its number; the
\* digits themselves are left out
_format_time(seconds) ==
    IF less_than(seconds, to_big(1)) THEN [unit |-> "milliseconds", decimals |-> 2]
    ELSE IF less_than(seconds, to_big(60)) THEN [unit |-> "seconds", decimals |-> 2]
    ELSE IF less_than(seconds, to_big(3600)) THEN [unit |-> "minutes", decimals |-> 2]
    ELSE IF less_than(seconds, to_big(86400)) THEN [unit |-> "hours", decimals |-> 2]
    ELSE IF less_than(seconds, year) THEN [unit |-> "days", decimals |-> 2]
    ELSE IF less_than(seconds, big_mul(year, 100))
    THEN [unit |-> "years", decimals |-> 2]
    ELSE IF less_than(seconds, thousand_years) THEN [unit |-> "years", decimals |-> 0]
    ELSE IF less_than(seconds, million_years)
    THEN [unit |-> "thousand years", decimals |-> 0]
    ELSE IF less_than(seconds, billion_years)
    THEN [unit |-> "million years", decimals |-> 0]
    ELSE [unit |-> "billion years", decimals |-> 0]

CrackEstimate(seconds, human_readable, hashes_required, algorithm) ==
    [seconds |-> seconds, human_readable |-> human_readable,
     hashes_required |-> hashes_required, algorithm |-> algorithm]

\* estimate_crack_time from the throughput on: the division, the formatting
\* and the CrackEstimate
estimate_from(avg_combinations, hashes_per_second, algorithm) ==
    LET seconds == true_div(avg_combinations, hashes_per_second)
    IN  IF seconds.raised # "no" THEN seconds
        ELSE Ret(CrackEstimate(seconds.value, _format_time(seconds.value),
                               avg_combinations, algorithm))

hashing_rate(algorithm, use_gpu) ==
    IF use_gpu THEN GPU_PERFORMANCE[algorithm] ELSE cpu_hashes_per_second

\* estimate_crack_time without the halving of the keyspace
estimate_crack_time_full_keyspace(password_length, charset_size, algorithm, use_gpu) ==
    IF use_gpu /\ algorithm \notin DOMAIN GPU_PERFORMANCE
    THEN Raise("KeyError")
    ELSE IF surely_overflows(charset_size, password_length,
                             hashing_rate(algorithm, use_gpu))
    THEN Raise("OverflowError")
    ELSE estimate_from(int_pow(charset_size, password_length),
                       hashing_rate(algorithm, use_gpu), algorithm)

estimate_crack_time(password_length, charset_size, algorithm, use_gpu) ==
    IF use_gpu /\ algorithm \notin DOMAIN GPU_PERFORMANCE
    THEN Raise("KeyError")
    ELSE IF surely_overflows(charset_size, password_length,
                             hashing_rate(algorithm, use_gpu))
    THEN Raise("OverflowError")
    ELSE estimate_from(big_div(int_pow(charset_size, password_length), 2),
                       hashing_rate(algorithm, use_gpu), algorithm)

(* The inputs of the HashEngine calls *)

MaxPasswordLength == 4   \* password_length ranges over 0..MaxPasswordLength

CharsetSizes == {0, 1, 2, 10, 26, 62, 95}

\* (password_length, charset_size): the short lengths, a passphrase's length
\* and, for the larger character sets, one far past the float range
EstimateInputs ==
    {<<l, c>> : l \in (0..MaxPasswordLength) \cup {24}, c \in CharsetSizes}
    \cup {<<400, c>> : c \in {10, 26, 62, 95}}

EnginePasswords == {<<>>, <<"a">>, <<"b">>, <<"a", "b">>}

\* hash_value strings no hash_password call returned
ForeignHashes ==
    {[format |-> "garbage", salt |-> "", digest |-> <<>>],
     [format |-> "argon2id", salt |-> "s1", digest |-> <<>>]}

\* a - 1, for a > 0
RECURSIVE big_pred(_)
big_pred(a) ==
    IF a[1] > 0 THEN strip([a EXCEPT ![1] = a[1] - 1])
    ELSE <<Base - 1>> \o big_pred(Tail(a))

Thresholds ==
    {to_big(1), to_big(60), to_big(3600), to_big(86400), year, big_mul(year, 100),
     thousand_years, million_years, billion_years}

\* the seconds _format_time is called with: each threshold, the second
\* before it, and half a second more than either
DurationPoints ==
    {Seconds(w, n, 2) :
        w \in Thresholds \cup {big_pred(t) : t \in Thresholds}
                 \cup {big_mul(billion_years, 2)},
        n \in {0, 1}}

idle_config ==
    AttackConfig("dictionary", default_charset, 1, 8, None, None,
                 default_max_attempts, default_speed_limit)

\* HashEngine.__init__
HashInit ==
    /\ config = idle_config
    /\ target = <<>>
    /\ pc = "engine"
    /\ gen = Dead
    /\ candidate = None
    /\ attempts = 0
    /\ found = FALSE
    /\ stopped_by_limit = FALSE
    /\ stop_requested = FALSE
    /\ sleeps = 0
    /\ compared = 0
    /\ outcome = "Idle"
    /\ result = None
    /\ stopDuring = FALSE
    /\ afterStop = 0
    /\ prevRun = None
    /\ yielded = <<>>
    /\ engine = NoCall
    /\ analysis = NoCall

\* the simulator's state but pc, which here is the caller's position: a
\* caller hashes a password and verifies against the result, or makes one
\* of the other calls
simulator == <<config, target, gen, candidate, attempts, found,
               stopped_by_limit, stop_requested, sleeps, compared, outcome,
               result, stopDuring, afterStop, prevRun, yielded>>

\* hash_password(password, algorithm); the caller keeps the HashResult
HashPassword ==
    /\ pc = "engine"
    /\ \E password \in EnginePasswords, algorithm \in AlgorithmArgs, salt \in Salts :
          LET r == hash_password(password, algorithm, salt)
          IN  engine' = [op |-> "hash_password",
                         args |-> [password |-> password, algorithm |-> algorithm],
                         ret |-> r,
                         kept |-> IF r.raised = "no"
                                  THEN Some([password |-> password, hashed |-> r.value])
                                  ELSE engine.kept]
    /\ pc' = "hashed"
    /\ UNCHANGED <<simulator, analysis>>

\* verify_password(password, hash_value, algorithm), on the kept hash_value or
\* a foreign one
VerifyPassword ==
    /\ pc \in {"engine", "hashed"}
    /\ \E password \in EnginePasswords, algorithm \in AlgorithmArgs,
          hash_value \in ForeignHashes
                         \cup {engine.kept[i].hashed.hash_value : i \in 1..Len(engine.kept)} :
          engine' = [op |-> "verify_password",
                     args |-> [password |-> password, hash_value |-> hash_value,
                               algorithm |-> algorithm],
                     ret |-> verify_password(password, hash_value, algorithm),
                     kept |-> engine.kept]
    /\ pc' = "called"
    /\ UNCHANGED <<simulator, analysis>>

\* estimate_crack_time(password_length, charset_size, algorithm, use_gpu)
EstimateCrackTime ==
    /\ pc = "engine"
    /\ \E input \in EstimateInputs, algorithm \in AlgorithmArgs, use_gpu \in BOOLEAN :
          engine' = [op |-> "estimate_crack_time",
                     args |-> [password_length |-> input[1],
                               charset_size |-> input[2],
                               algorithm |-> algorithm, use_gpu |-> use_gpu],
                     ret |-> estimate_crack_time(input[1], input[2],
                                                 algorithm, use_gpu),
                     kept |-> engine.kept]
    /\ pc' = "called"
    /\ UNCHANGED <<simulator, analysis>>

\* HashEngine._format_time(seconds)
FormatTime ==
    /\ pc = "engine"
    /\ \E seconds \in DurationPoints :
          engine' = [op |-> "_format_time", args |-> [seconds |-> seconds],
                     ret |-> Ret(_format_time(seconds)), kept |-> engine.kept]
    /\ pc' = "called"
    /\ UNCHANGED <<simulator, analysis>>

HashNext ==
    \/ HashPassword
    \/ VerifyPassword
    \/ EstimateCrackTime
    \/ FormatTime

HashSpec == HashInit /\ [][HashNext]_vars


---------------------------------------------------------------------------
(* What the claims about the HashEngine speak of *)

Called(op) == engine.op = op

\* verify_password was called on the hash_value hash_password returned, with
\* the algorithm it was hashed with
VerifiedOwnHash ==
    /\ Called("verify_password")
    /\ engine.kept # None
    /\ engine.args.hash_value = engine.kept[1].hashed.hash_value
    /\ engine.args.algorithm = engine.kept[1].hashed.algorithm

\* C14 (as claimed): for each of the five algorithms, verifying q against
\* the hash_value of hash(p) returns true if q = p and false otherwise.
C14_VerifyRoundTrip ==
    VerifiedOwnHash =>
       /\ engine.ret.raised = "no"
       /\ engine.ret.value = (engine.args.password = engine.kept[1].password)

\* C15: verify_password never raises: whatever the password, the hash_value
\* (malformed or of another algorithm included) and the algorithm, it returns
\* a boolean, and false whenever the verification itself raised.
C15_VerifyTotal ==
    Called("verify_password") =>
       /\ engine.ret.raised = "no"
       /\ engine.ret.value \in BOOLEAN
       /\ (verify_try(engine.args.password, engine.args.hash_value,
                      engine.args.algorithm).raised # "no"
             => engine.ret.value = FALSE)

\* bcrypt given a string that is no bcrypt hash: ValueError inside, False outside
C15_Witness ==
    /\ Called("verify_password")
    /\ engine.args.algorithm = "bcrypt"
    /\ engine.args.hash_value.format = "garbage"
    /\ engine.ret = Ret(FALSE)

\* C16 (as claimed): a value outside the enumeration is rejected at every
\* dispatch point: hash_password, verify_password and estimate_crack_time
\* (with and without GPU) raise for an unsupported algorithm, and
\* simulate_attack raises for an unsupported mode before any candidate is
\* generated or compared, returning no result.
C16_UnsupportedRejected ==
    /\ (engine.op \in {"hash_password", "verify_password", "estimate_crack_time"}
          /\ engine.args.algorithm \notin Algorithms)
       => engine.ret.raised # "no"
    /\ (config.mode \notin AttackModes /\ outcome # "Idle")
       => /\ outcome = "ValueError"
          /\ candidate = None
          /\ compared = 0
          /\ result = None

\* the throughput column the estimate is said to use with a GPU
GpuTable(a) ==
    CASE a = "argon2id" -> 50000 [] a = "scrypt" -> 100000
      [] a = "pbkdf2_sha256" -> 10000000 [] a = "pbkdf2_sha512" -> 5000000
      [] a = "bcrypt" -> 500000

\* the throughput column the estimate is said to use without one
CpuTable(a) ==
    CASE a = "argon2id" -> 1000 [] a = "scrypt" -> 2000
      [] a = "pbkdf2_sha256" -> 100000 [] a = "bcrypt" -> 10000

Estimated == Called("estimate_crack_time") /\ engine.ret.raised = "no"

\* the int a sequence of base-100 digits stands for, when below 2^31
RECURSIVE IntOf(_)
IntOf(a) == IF a = <<>> THEN 0 ELSE a[1] + 100 * IntOf(Tail(a))

\* an estimate over a keyspace below 2^31, which can be recomputed as it
\* stands: charset_size < 2^bit_length, so the power is below 2^31
SmallEstimate ==
    /\ Estimated
    /\ engine.args.password_length * bit_length(engine.args.charset_size) <= 31

\* C17: the estimate's hashes_required is charset_size^password_length
\* halved with floor, its seconds are exactly hashes_required divided by the
\* throughput, and its algorithm is the requested one; length 4 over 10
\* characters with PBKDF2-SHA256 on a GPU gives 5000 and 5000 / 10,000,000.
C17_EstimateArithmetic ==
    SmallEstimate =>
       LET a == engine.args
           v == engine.ret.value
           required == Pow(a.charset_size, a.password_length) \div 2
       IN  /\ IntOf(v.hashes_required) = required
           /\ v.seconds.den > 0
           /\ v.seconds.num = required % v.seconds.den
           /\ IntOf(v.seconds.whole) = required \div v.seconds.den
           /\ (a.use_gpu => v.seconds.den = GpuTable(a.algorithm))
           /\ v.algorithm = a.algorithm
           /\ (a.password_length = 4 /\ a.charset_size = 10 /\ a.use_gpu
                  /\ a.algorithm = "pbkdf2_sha256")
              => /\ v.hashes_required = <<0, 50>>
                 /\ v.seconds = Seconds(<<>>, 5000, 10000000)

\* the example, and an odd total: 1^3 = 1 halves to 0
C17_Witness ==
    /\ Estimated
    /\ engine.args = [password_length |-> 4, charset_size |-> 10,
                      algorithm |-> "pbkdf2_sha256", use_gpu |-> TRUE]
    /\ engine.ret.value.hashes_required = <<0, 50>>

\* C18 (as claimed): the throughput of an estimate is the calibration
\* table's value for the algorithm and for GPU or CPU: the CPU column is
\* 1,000 for Argon2id, 2,000 for scrypt, 100,000 for PBKDF2-SHA256 and
\* 10,000 for bcrypt.
C18_ThroughputTable ==
    (Estimated /\ engine.args.algorithm \in Algorithms) =>
       LET a == engine.args
           hashes_per_second == engine.ret.value.seconds.den
       IN  /\ a.use_gpu => hashes_per_second = GpuTable(a.algorithm)
           /\ (~a.use_gpu /\ a.algorithm # "pbkdf2_sha512")
              => hashes_per_second = CpuTable(a.algorithm)

\* seconds >= limit, for a whole limit
AtLeast(s, limit) == s.whole = limit \/ big_less(limit, s.whole)

Band(s, lo, hi) == AtLeast(s, lo) /\ ~AtLeast(s, hi)

\* n years of 31,536,000 seconds, for n below 10^7
Years(n) == big_mul(<<0, 60, 53, 31>>, n)

\* C19: the unit of a formatted duration is milliseconds below 1 second,
\* seconds below 60, minutes below 3600, hours below 86400, days below one
\* year of 31,536,000 seconds, years below 1,000 years, thousand years below
\* 10^6 years, million years below 10^9 years and billion years from there:
\* one band for every duration, a threshold belonging to the higher band.
C19_FormatBands ==
    Called("_format_time") =>
       LET s == engine.args.seconds
           u == engine.ret.value.unit
       IN  /\ u = "milliseconds" <=> ~AtLeast(s, <<1>>)
           /\ u = "seconds" <=> Band(s, <<1>>, <<60>>)
           /\ u = "minutes" <=> Band(s, <<60>>, <<0, 36>>)
           /\ u = "hours" <=> Band(s, <<0, 36>>, <<0, 64, 8>>)
           /\ u = "days" <=> Band(s, <<0, 64, 8>>, Years(1))
           /\ u = "years" <=> Band(s, Years(1), Years(1000))
           /\ u = "thousand years" <=> Band(s, Years(1000), Years(1000000))
           /\ u = "million years"
                 <=> Band(s, Years(1000000), big_mul(Years(1000000), 1000))
           /\ u = "billion years" <=> AtLeast(s, big_mul(Years(1000000), 1000))

\* exactly one year is formatted in years, exactly 86400 seconds in days
C19_Witness ==
    /\ Called("_format_time")
    /\ engine.args.seconds = Seconds(<<0, 60, 53, 31>>, 0, 2)
    /\ engine.ret.value.unit = "years"


---------------------------------------------------------------------------
(* PasswordAnalyzer (modules/password_analyzer.py)                         *)
(*                                                                         *)
(* entropy_bits is kept in units of 1/100000 bit: math.log2 of a charset   *)
(* size is a table entry rounded down, and log2(charset_size ** length) is *)
(* length times it.  The console output of analyze is left out.            *)

KEYBOARD_PATTERNS ==
    << <<"q", "w", "e", "r", "t", "y">>,
       <<"a", "s", "d", "f", "g", "h">>,
       <<"z", "x", "c", "v", "b", "n">>,
       <<"1", "2", "3", "4", "5">>,
       <<"q", "w", "e", "r", "t", "y", "u", "i", "o", "p">>,
       <<"a", "s", "d", "f", "g", "h", "j", "k", "l">>,
       <<"z", "x", "c", "v", "b", "n", "m">>,
       <<"q", "a", "z", "w", "s", "x">>,
       <<"1", "q", "a", "z", "2", "w", "s", "x">> >>

SEQUENCES == << <<"a", "b", "c">>,
               <<"1", "2", "3">>,
               <<"x", "y", "z">>,
               <<"r", "s", "t">> >>

\* the members of _load_common_passwords' set that the source file shows
common_passwords ==
    { <<"p", "a", "s", "s", "w", "o", "r", "d">>,
      <<"1", "2", "3", "4", "5", "6">>,
      <<"1", "2", "3", "4", "5", "6", "7", "8">>,
      <<"q", "w", "e", "r", "t", "y">>,
      <<"a", "b", "c", "1", "2", "3">>,
      <<"p", "a", "s", "s", "w", "o", "r", "d", "1", "2", "3">>,
      <<"a", "d", "m", "i", "n">>,
      <<"l", "e", "t", "m", "e", "i", "n">>,
      <<"w", "e", "l", "c", "o", "m", "e">>,
      <<"m", "o", "n", "k", "e", "y">>,
      <<"d", "r", "a", "g", "o", "n">>,
      <<"m", "a", "s", "t", "e", "r">>,
      <<"s", "u", "n", "s", "h", "i", "n", "e">>,
      <<"p", "r", "i", "n", "c", "e", "s", "s">>,
      <<"f", "o", "o", "t", "b", "a", "l", "l">>,
      <<"i", "l", "o", "v", "e", "y", "o", "u">>,
      <<"s", "h", "a", "d", "o", "w">>,
      <<"m", "i", "c", "h", "a", "e", "l">>,
      <<"s", "u", "p", "e", "r", "m", "a", "n">>,
      <<"t", "r", "u", "s", "t", "n", "o", "1">>,
      <<"p", "a", "s", "s", "w", "0", "r", "d">>,
      <<"a", "d", "m", "i", "n", "1", "2", "3">>,
      <<"r", "o", "o", "t">>,
      <<"t", "o", "o", "r">>,
      <<"p", "a", "s", "s", "w", "o", "r", "d", "1">> }

leet_patterns == {"@", "3", "1", "0", "$", "7"}

\* units of entropy_bits in one bit
bit == 100000

\* math.log2(n) for the charset sizes _calculate_charset_size can return
log2(n) ==
    CASE n = 1 -> 0 [] n = 10 -> 332192 [] n = 11 -> 345943 [] n = 26 -> 470043
      [] n = 27 -> 475488 [] n = 32 -> 500000 [] n = 33 -> 504439 [] n = 36 -> 516992
      [] n = 37 -> 520945 [] n = 42 -> 539231 [] n = 43 -> 542626 [] n = 52 -> 570043
      [] n = 53 -> 572792 [] n = 58 -> 585798 [] n = 59 -> 588264 [] n = 62 -> 595419
      [] n = 63 -> 597727 [] n = 68 -> 608746 [] n = 69 -> 610852 [] n = 84 -> 639231
      [] n = 85 -> 640939 [] n = 94 -> 655458 [] n = 95 -> 656985

\* pattern in text (0-based index of the first occurrence, -1 if none)
str_find(pattern, text) ==
    LET at == {i \in 0..(Len(text) - Len(pattern)) :
                  SubSeq(text, i + 1, i + Len(pattern)) = pattern}
    IN  IF at = {} THEN -1 ELSE CHOOSE i \in at : \A j \in at : i <= j

str_contains(pattern, text) == str_find(pattern, text) >= 0

_calculate_charset_size(password) ==
    LET has_lowercase == \E i \in 1..Len(password) : Occurs(password[i], ascii_lowercase)
        has_uppercase == \E i \in 1..Len(password) : Occurs(password[i], ascii_uppercase)
        has_digits == \E i \in 1..Len(password) : Occurs(password[i], digits)
        has_special == \E i \in 1..Len(password) : Occurs(password[i], punctuation)
        has_space == \E i \in 1..Len(password) : password[i] = " "
        size == (IF has_lowercase THEN 26 ELSE 0) + (IF has_uppercase THEN 26 ELSE 0)
                  + (IF has_digits THEN 10 ELSE 0) + (IF has_special THEN 32 ELSE 0)
                  + (IF has_space THEN 1 ELSE 0)
    IN  IF size > 0 THEN size ELSE 1

_calculate_entropy(password, charset_size) ==
    IF Len(password) = 0 \/ charset_size = 0 THEN 0
    ELSE Len(password) * log2(charset_size)

PatternMatch(pattern_type, detail, severity, start, end) ==
    [pattern_type |-> pattern_type, detail |-> detail, severity |-> severity,
     position |-> <<start, end>>]

\* contained, leaving the list at the first pattern found
RECURSIVE contained_first_only(_, _, _, _)
contained_first_only(listed, text, pattern_type, severity) ==
    IF listed = <<>> THEN <<>>
    ELSE IF str_contains(Head(listed), text)
    THEN <<PatternMatch(pattern_type, Head(listed), severity,
                        str_find(Head(listed), text),
                        str_find(Head(listed), text) + Len(Head(listed)))>>
    ELSE contained_first_only(Tail(listed), text, pattern_type, severity)

\* one match per listed pattern contained in the text, in list order
RECURSIVE contained(_, _, _, _)
contained(listed, text, pattern_type, severity) ==
    IF listed = <<>> THEN <<>>
    ELSE (IF str_contains(Head(listed), text)
          THEN <<PatternMatch(pattern_type, Head(listed), severity,
                              str_find(Head(listed), text),
                              str_find(Head(listed), text) + Len(Head(listed)))>>
          ELSE <<>>)
            \o contained(Tail(listed), text, pattern_type, severity)

\* YEAR_PATTERN.search: 0-based starts of 19dd or 20dd
year_starts(password) ==
    {i \in 0..(Len(password) - 4) :
        /\ SubSeq(password, i + 1, i + 2) \in {<<"1", "9">>, <<"2", "0">>}
        /\ Occurs(password[i + 3], digits)
        /\ Occurs(password[i + 4], digits)}

\* range(len(password) - 2) positions that begin three equal characters
repeat_starts(password) ==
    {i \in 0..(Len(password) - 3) :
        password[i + 1] = password[i + 2] /\ password[i + 2] = password[i + 3]}

first_of(S) == CHOOSE i \in S : \A j \in S : i <= j

\* _detect_patterns looking the password up as it is spelled
_detect_patterns_exact_case(password) ==
    LET password_lower == str_lower(password)
    IN  (IF password \in common_passwords
         THEN <<PatternMatch("Common Password", <<>>, "high", 0, Len(password))>>
         ELSE <<>>)
        \o contained(KEYBOARD_PATTERNS, password_lower, "Keyboard Pattern", "high")
        \o contained(SEQUENCES, password_lower, "Character Sequence", "medium")
        \o (IF repeat_starts(password) # {}
            THEN <<PatternMatch("Character Repetition",
                                <<password[first_of(repeat_starts(password)) + 1]>>,
                                "medium", first_of(repeat_starts(password)),
                                first_of(repeat_starts(password)) + 3)>>
            ELSE <<>>)
        \o (IF year_starts(password) # {}
            THEN <<PatternMatch("Date/Year",
                                SubSeq(password, first_of(year_starts(password)) + 1,
                                       first_of(year_starts(password)) + 4),
                                "medium", first_of(year_starts(password)),
                                first_of(year_starts(password)) + 4)>>
            ELSE <<>>)
        \o (IF \E i \in 1..Len(password) : password[i] \in leet_patterns
            THEN <<PatternMatch("L33t Speak", <<>>, "low", 0, Len(password))>>
            ELSE <<>>)

_detect_patterns(password) ==
    LET password_lower == str_lower(password)
    IN  (IF password_lower \in common_passwords
         THEN <<PatternMatch("Common Password", <<>>, "high", 0, Len(password))>>
         ELSE <<>>)
        \o contained(KEYBOARD_PATTERNS, password_lower, "Keyboard Pattern", "high")
        \o contained(SEQUENCES, password_lower, "Character Sequence", "medium")
        \o (IF repeat_starts(password) # {}
            THEN <<PatternMatch("Character Repetition",
                                <<password[first_of(repeat_starts(password)) + 1]>>,
                                "medium", first_of(repeat_starts(password)),
                                first_of(repeat_starts(password)) + 3)>>
            ELSE <<>>)
        \o (IF year_starts(password) # {}
            THEN <<PatternMatch("Date/Year",
                                SubSeq(password, first_of(year_starts(password)) + 1,
                                       first_of(year_starts(password)) + 4),
                                "medium", first_of(year_starts(password)),
                                first_of(year_starts(password)) + 4)>>
            ELSE <<>>)
        \o (IF \E i \in 1..Len(password) : password[i] \in leet_patterns
            THEN <<PatternMatch("L33t Speak", <<>>, "low", 0, Len(password))>>
            ELSE <<>>)

\* the algorithms of _estimate_crack_times, in order
crack_algorithms == <<"argon2id", "bcrypt", "pbkdf2_sha256">>

\* the six estimate_crack_time calls in the order they are made
crack_calls(length, charset_size) ==
    [k \in 1..6 |-> estimate_crack_time(length, charset_size,
                                        crack_algorithms[(k + 1) \div 2], k % 2 = 0)]

\* _estimate_crack_times: the estimates by algorithm, or the first exception
_estimate_crack_times(length, charset_size) ==
    LET calls == crack_calls(length, charset_size)
        failed == {k \in 1..6 : calls[k].raised # "no"}
    IN  IF failed # {} THEN calls[first_of(failed)]
        ELSE Ret([a \in 1..3 |->
                     [algorithm |-> crack_algorithms[a],
                      cpu |-> calls[2 * a - 1].value.human_readable,
                      gpu |-> calls[2 * a].value.human_readable]])

deduction(severity) ==
    CASE severity = "high" -> 25 [] severity = "medium" -> 15
      [] severity = "low" -> 5 [] OTHER -> 0

RECURSIVE deductions(_)
deductions(patterns) ==
    IF patterns = <<>> THEN 0
    ELSE deduction(Head(patterns).severity) + deductions(Tail(patterns))

min(a, b) == IF a <= b THEN a ELSE b
max(a, b) == IF a >= b THEN a ELSE b

\* int(entropy / 128 * 100); 100 / 128 is 25 / 32
entropy_score(entropy) == min(100, (entropy * 25) \div (32 * bit))

length_bonus(password) ==
    IF Len(password) >= 16 THEN 10 ELSE IF Len(password) >= 12 THEN 5 ELSE 0

\* _calculate_score with the result clamped from above only
_calculate_score_no_floor(password, entropy, patterns) ==
    min(100, entropy_score(entropy) - deductions(patterns) + length_bonus(password))

\* _calculate_score with the range enforced before the length bonus as well
_calculate_score_clamp_before_bonus(password, entropy, patterns) ==
    max(0, min(100, max(0, min(100, entropy_score(entropy) - deductions(patterns)))
                        + length_bonus(password)))

_calculate_score(password, entropy, patterns) ==
    max(0, min(100, entropy_score(entropy) - deductions(patterns)
                        + length_bonus(password)))

\* _categorize_strength by the score alone
_categorize_strength_by_score(score, entropy) ==
    IF score >= 80 THEN "very_strong"
    ELSE IF score >= 60 THEN "strong"
    ELSE IF score >= 40 THEN "moderate"
    ELSE IF score >= 20 THEN "weak"
    ELSE "very_weak"

_categorize_strength(score, entropy) ==
    IF score >= 80 /\ entropy >= 80 * bit THEN "very_strong"
    ELSE IF score >= 60 /\ entropy >= 60 * bit THEN "strong"
    ELSE IF score >= 40 /\ entropy >= 40 * bit THEN "moderate"
    ELSE IF score >= 20 THEN "weak"
    ELSE "very_weak"

has_type(patterns, pattern_type) ==
    \E i \in 1..Len(patterns) : patterns[i].pattern_type = pattern_type

\* the messages of _generate_recommendations, each by a name
rules_fired(length, charset_size, patterns, strength) ==
    (IF length < 12 THEN <<"increase_length">>
     ELSE IF length < 16 THEN <<"consider_16">> ELSE <<>>)
    \o (IF charset_size < 62 THEN <<"mix_classes">> ELSE <<>>)
    \o (IF has_type(patterns, "Common Password") THEN <<"common_password">> ELSE <<>>)
    \o (IF has_type(patterns, "Keyboard Pattern") THEN <<"keyboard_pattern">> ELSE <<>>)
    \o (IF has_type(patterns, "Date/Year") THEN <<"date_year">> ELSE <<>>)
    \o (IF strength \in {"very_weak", "weak"}
        THEN <<"password_manager", "enable_mfa">> ELSE <<>>)

\* _generate_recommendations closing every list with the affirmative messages
_generate_recommendations_affirm_always(password, length, charset_size, patterns, strength) ==
    rules_fired(length, charset_size, patterns, strength)
        \o <<"password_is_strong", "mfa_additional_layer">>

_generate_recommendations(password, length, charset_size, patterns, strength) ==
    IF rules_fired(length, charset_size, patterns, strength) # <<>>
    THEN rules_fired(length, charset_size, patterns, strength)
    ELSE <<"password_is_strong", "mfa_additional_layer">>

(* The passwords analyze is called with: up to MaxTokens pieces, each a    *)
(* common password, a keyboard pattern, a sequence, a repetition, a year, a *)
(* substitution character, a space or eight characters of all four classes; *)
(* one password of 400 characters; every common password as listed, in      *)
(* capitals and capitalized; and a few passwords of their own.              *)

MaxTokens == 3

PasswordTokens ==
    { <<"p", "a", "s", "s", "w", "o", "r", "d">>,
      <<"q", "w", "e", "r", "t", "y">>,
      <<"a", "b", "c">>,
      <<"a", "a", "a">>,
      <<"2", "0", "2", "4">>,
      <<"@">>,
      <<" ">>,
      <<"X", "k", "#", "9", "m", "Q", "!", "v">> }

RECURSIVE Passphrases(_)
Passphrases(n) ==
    IF n = 0 THEN {<<>>}
    ELSE Passphrases(n - 1)
           \cup {p \o t : p \in Passphrases(n - 1), t \in PasswordTokens}

long_password == [i \in 1..400 |-> IF i % 2 = 1 THEN "k" ELSE "j"]

\* the common passwords as listed, upper-cased and capitalized
CommonPasswordSpellings ==
    common_passwords \cup {str_upper(w) : w \in common_passwords}
        \cup {str_capitalize(w) : w \in common_passwords}

\* a keyboard pattern that contains another, two sequences at once, two runs
\* of three, two years, six letters of one class, and passwords of tabs,
\* which belong to no class
OtherPasswords ==
    { <<"q", "w", "e", "r", "t", "y", "u", "i", "o", "p">>,
      <<"x", "y", "z", "1", "2", "3">>,
      <<"b", "b", "b", "c", "c", "c">>,
      <<"1", "9", "9", "9", "2", "0", "2", "5">>,
      <<"k", "j", "k", "j", "k", "j">>,
      <<"\t">>,
      <<"\t", "\t">> }

AnalyzerPasswords ==
    Passphrases(MaxTokens) \cup {long_password} \cup CommonPasswordSpellings
        \cup OtherPasswords

\* (score, entropy) pairs _categorize_strength is called with on its own:
\* each limit of either, and the value just below it
StrengthInputs ==
    {0, 19, 20, 39, 40, 59, 60, 79, 80, 100}
        \X {0, 40 * bit - 1, 40 * bit, 60 * bit - 1, 60 * bit, 80 * bit - 1,
            80 * bit, 128 * bit}

\* PasswordAnalyzer.__init__, and the password analyze is about to be given
AnalyzeInit ==
    /\ config = idle_config
    /\ target = <<>>
    /\ gen = Dead
    /\ candidate = None
    /\ attempts = 0
    /\ found = FALSE
    /\ stopped_by_limit = FALSE
    /\ stop_requested = FALSE
    /\ sleeps = 0
    /\ compared = 0
    /\ outcome = "Idle"
    /\ result = None
    /\ stopDuring = FALSE
    /\ afterStop = 0
    /\ prevRun = None
    /\ yielded = <<>>
    /\ engine = NoCall
    /\ \/ /\ pc = "analyze"
          /\ \E password \in AnalyzerPasswords :
                analysis = [op |-> "none", args |-> [password |-> password],
                            ret |-> <<>>, kept |-> None]
       \/ /\ pc = "categorize"
          /\ \E input \in StrengthInputs :
                analysis = [op |-> "none",
                            args |-> [score |-> input[1], entropy |-> input[2]],
                            ret |-> <<>>, kept |-> None]

\* analyze, to the pattern detection: length, charset_size, entropy, patterns
Measure ==
    /\ pc = "analyze"
    /\ LET password == analysis.args.password
           charset_size == _calculate_charset_size(password)
       IN  analysis' = [analysis EXCEPT
               !.op = "analyze",
               !.kept = Some([length |-> Len(password),
                              charset_size |-> charset_size,
                              entropy |-> _calculate_entropy(password, charset_size),
                              patterns |-> _detect_patterns(password)])]
    /\ pc' = "crack_times"
    /\ UNCHANGED <<simulator, engine>>

\* analyze: crack_times = self._estimate_crack_times(...), whose exception
\* leaves analyze
EstimateCrackTimes ==
    /\ pc = "crack_times"
    /\ LET crack_times == _estimate_crack_times(analysis.kept[1].length,
                                                analysis.kept[1].charset_size)
       IN  IF crack_times.raised # "no"
           THEN /\ analysis' = [analysis EXCEPT !.ret = crack_times]
                /\ pc' = "analyzed"
           ELSE /\ analysis' = [analysis EXCEPT
                       !.kept = Some([length |-> analysis.kept[1].length,
                                      charset_size |-> analysis.kept[1].charset_size,
                                      entropy |-> analysis.kept[1].entropy,
                                      patterns |-> analysis.kept[1].patterns,
                                      crack_times |-> crack_times.value])]
                /\ pc' = "score"
    /\ UNCHANGED <<simulator, engine>>

PasswordAnalysis(password, length, charset_size, entropy, strength, patterns, crack_times, score, recommendations) ==
    [password |-> password, length |-> length, charset_size |-> charset_size,
     entropy_bits |-> entropy, strength |-> strength, patterns |-> patterns,
     crack_time_estimates |-> crack_times, score |-> score,
     recommendations |-> recommendations]

\* analyze, from the score to the returned PasswordAnalysis
Conclude ==
    /\ pc = "score"
    /\ LET password == analysis.args.password
           k == analysis.kept[1]
           score == _calculate_score(password, k.entropy, k.patterns)
           strength == _categorize_strength(score, k.entropy)
       IN  analysis' = [analysis EXCEPT
               !.ret = Ret(PasswordAnalysis(
                               password, k.length, k.charset_size, k.entropy,
                               strength, k.patterns, k.crack_times, score,
                               _generate_recommendations(password, k.length,
                                   k.charset_size, k.patterns, strength)))]
    /\ pc' = "analyzed"
    /\ UNCHANGED <<simulator, engine>>

\* _categorize_strength called on its own
CategorizeStrength ==
    /\ pc = "categorize"
    /\ analysis' = [analysis EXCEPT
           !.op = "_categorize_strength",
           !.ret = Ret(_categorize_strength(analysis.args.score,
                                            analysis.args.entropy))]
    /\ pc' = "categorized"
    /\ UNCHANGED <<simulator, engine>>

AnalyzeNext ==
    \/ Measure
    \/ EstimateCrackTimes
    \/ Conclude
    \/ CategorizeStrength

AnalyzeSpec == AnalyzeInit /\ [][AnalyzeNext]_vars

---------------------------------------------------------------------------
(* What the claims about the PasswordAnalyzer speak of *)

\* analyze was called and has returned or raised
Analyzed == pc = "analyzed" /\ analysis.op = "analyze"

\* C20: every analysis that analyze returns, for the empty password and for
\* passwords with any number of patterns, has an integer score from 0 to 100.
C20_ScoreRange ==
    (Analyzed /\ analysis.ret.raised = "no") =>
       analysis.ret.value.score \in 0..100

\* qwertyabcaaa: 44 from the entropy, less 25 + 15 + 15, plus 5 for the
\* length, is below 0 and is returned as 0
C20_Witness ==
    /\ Analyzed /\ analysis.ret.raised = "no"
    /\ analysis.args.password
          = <<"q", "w", "e", "r", "t", "y", "a", "b", "c", "a", "a", "a">>
    /\ Len(analysis.ret.value.patterns) = 3
    /\ analysis.ret.value.score = 0


---------------------------------------------------------------------------
(* The strength category *)

\* a strength was computed: by _categorize_strength on its own, or within an
\* analysis that analyze returned
Categorized ==
    \/ pc = "categorized"
    \/ Analyzed /\ analysis.ret.raised = "no"

\* the score, the entropy and the strength of that computation
StrengthScore ==
    IF pc = "categorized" THEN analysis.args.score ELSE analysis.ret.value.score

StrengthEntropy ==
    IF pc = "categorized" THEN analysis.args.entropy
    ELSE analysis.ret.value.entropy_bits

StrengthGiven ==
    IF pc = "categorized" THEN analysis.ret.value ELSE analysis.ret.value.strength

\* score and entropy are both at least n (bits)
Reaches(n) == StrengthScore >= n /\ StrengthEntropy >= n * bit

\* C21: the strength is decided by score and entropy alone, the first
\* matching tier winning: very strong iff both reach 80, else strong iff both
\* reach 60, else moderate iff both reach 40, else weak iff the score reaches
\* 20, else very weak; so a score of 20 or more with entropy below 40 is weak
\* and a score below 20 is very weak.
C21_StrengthTiers ==
    Categorized =>
       /\ StrengthGiven = "very_strong" <=> Reaches(80)
       /\ StrengthGiven = "strong" <=> (~Reaches(80) /\ Reaches(60))
       /\ StrengthGiven = "moderate" <=> (~Reaches(60) /\ Reaches(40))
       /\ StrengthGiven = "weak" <=> (~Reaches(40) /\ StrengthScore >= 20)
       /\ StrengthGiven = "very_weak" <=> (~Reaches(40) /\ StrengthScore < 20)
       /\ (StrengthScore >= 20 /\ StrengthEntropy < 40 * bit)
             => StrengthGiven = "weak"
       /\ StrengthScore < 20 => StrengthGiven = "very_weak"

\* a score of 100 with entropy just below 40 bits is weak
C21_Witness ==
    /\ pc = "categorized"
    /\ analysis.args = [score |-> 100, entropy |-> 40 * bit - 1]
    /\ analysis.ret = Ret("weak")


---------------------------------------------------------------------------
(* Common passwords *)

\* analyze returned an analysis
Returns == Analyzed /\ analysis.ret.raised = "no"

\* C22: a password whose lower-cased form is in the common-password set gets
\* a Common Password match of high severity and a strength of weak or very
\* weak.
C22_CommonPasswordWeak ==
    (Returns /\ str_lower(analysis.args.password) \in common_passwords) =>
       /\ \E i \in 1..Len(analysis.ret.value.patterns) :
             /\ analysis.ret.value.patterns[i].pattern_type = "Common Password"
             /\ analysis.ret.value.patterns[i].severity = "high"
       /\ analysis.ret.value.strength \in {"weak", "very_weak"}

\* PASSWORD, found by its lower-cased form
C22_Witness ==
    /\ Returns
    /\ analysis.args.password = <<"P", "A", "S", "S", "W", "O", "R", "D">>
    /\ analysis.ret.value.patterns[1].pattern_type = "Common Password"
    /\ analysis.ret.value.strength = "very_weak"


---------------------------------------------------------------------------
(* Entropy and length *)

\* the password without its last character
Shorter(password) == SubSeq(password, 1, Len(password) - 1)

\* C23 (as claimed): with the charset size fixed, a longer password has
\* strictly more entropy_bits than a shorter one, for every charset size
\* analyze derives, passwords of spaces only or of characters of no class
\* included: the analysis of a password has more entropy than the password
\* one character shorter has, when both give the same charset size.
C23_EntropyMonotone ==
    (Returns /\ Len(analysis.args.password) >= 1
        /\ _calculate_charset_size(Shorter(analysis.args.password))
              = analysis.ret.value.charset_size)
    => analysis.ret.value.entropy_bits
          > _calculate_entropy(Shorter(analysis.args.password),
                               analysis.ret.value.charset_size)


---------------------------------------------------------------------------
(* The score *)

\* how many of the returned matches have the severity
Matches(severity) ==
    Cardinality({i \in 1..Len(analysis.ret.value.patterns) :
                    analysis.ret.value.patterns[i].severity = severity})

\* min(100, floor(entropy_bits / 128 * 100)), entropy_bits in 1/100000 bit
EntropyPoints ==
    LET points == (analysis.ret.value.entropy_bits * 100) \div (128 * bit)
    IN  IF points > 100 THEN 100 ELSE points

Bonus ==
    IF analysis.ret.value.length >= 16 THEN 10
    ELSE IF analysis.ret.value.length >= 12 THEN 5 ELSE 0

Unclamped ==
    EntropyPoints - 25 * Matches("high") - 15 * Matches("medium")
        - 5 * Matches("low") + Bonus

\* C24: the score is min(100, floor(entropy_bits / 128 * 100)) less 25 per
\* high, 15 per medium and 5 per low match, plus 10 from 16 characters or
\* else 5 from 12, and only then brought into 0..100.
C24_ScoreFormula ==
    Returns =>
       analysis.ret.value.score
          = (IF Unclamped < 0 THEN 0 ELSE IF Unclamped > 100 THEN 100 ELSE Unclamped)

\* passwordqwerty2024: 72 from the entropy, less 25 + 15 + 5 for three
\* matches, plus 10 for 18 characters
C24_Witness ==
    /\ Returns
    /\ analysis.args.password
          = <<"p", "a", "s", "s", "w", "o", "r", "d", "q", "w", "e", "r", "t", "y",
              "2", "0", "2", "4">>
    /\ Matches("high") = 1 /\ Matches("medium") = 1 /\ Matches("low") = 1
    /\ EntropyPoints = 72
    /\ analysis.ret.value.score = 37


---------------------------------------------------------------------------
(* The order of the pattern matches *)

Found == analysis.ret.value.patterns

\* the place of a pattern type in the order of detection
Rank(pattern_type) ==
    CASE pattern_type = "Common Password" -> 1
      [] pattern_type = "Keyboard Pattern" -> 2
      [] pattern_type = "Character Sequence" -> 3
      [] pattern_type = "Character Repetition" -> 4
      [] pattern_type = "Date/Year" -> 5
      [] pattern_type = "L33t Speak" -> 6

\* the indexes of the returned matches of a type
OfType(pattern_type) ==
    {i \in 1..Len(Found) : Found[i].pattern_type = pattern_type}

\* the text holds the piece somewhere
Within(piece, text) ==
    \E k \in 0..(Len(text) - Len(piece)) :
       \A n \in 1..Len(piece) : text[k + n] = piece[n]

\* the indexes of the listed pieces the lower-cased password holds
Held(listed) ==
    {k \in 1..Len(listed) : Within(listed[k], str_lower(analysis.args.password))}

\* the matches of a type are the listed pieces the password holds, one match
\* each, in the order of the list
OnePerHeld(pattern_type, listed) ==
    /\ Cardinality(OfType(pattern_type)) = Cardinality(Held(listed))
    /\ \A i \in OfType(pattern_type) :
          \E k \in Held(listed) :
             /\ Found[i].detail = listed[k]
             /\ Cardinality({j \in OfType(pattern_type) : j < i})
                   = Cardinality({h \in Held(listed) : h < k})

\* 0-based starts of three equal characters, and of a year 19dd or 20dd
Runs ==
    {k \in 0..(Len(analysis.args.password) - 3) :
        \A n \in 2..3 : analysis.args.password[k + n] = analysis.args.password[k + 1]}

YearsAt ==
    {k \in 0..(Len(analysis.args.password) - 4) :
        /\ \/ analysis.args.password[k + 1] = "1" /\ analysis.args.password[k + 2] = "9"
           \/ analysis.args.password[k + 1] = "2" /\ analysis.args.password[k + 2] = "0"
        /\ \A n \in 3..4 :
              analysis.args.password[k + n]
                 \in {"0", "1", "2", "3", "4", "5", "6", "7", "8", "9"}}

\* C25: the matches come in the order common password, keyboard patterns,
\* sequences, repetition, year, l33t: at most one common-password match, one
\* keyboard match per listed keyboard pattern contained (a pattern inside
\* another counts too), one sequence match per listed sequence contained, at
\* most one repetition match, for the first run of three, at most one year
\* match and at most one l33t match; the empty password has no matches.
C25_PatternOrder ==
    Returns =>
       /\ \A i, j \in 1..Len(Found) :
             i < j => Rank(Found[i].pattern_type) <= Rank(Found[j].pattern_type)
       /\ Cardinality(OfType("Common Password"))
             = (IF str_lower(analysis.args.password) \in common_passwords THEN 1 ELSE 0)
       /\ OnePerHeld("Keyboard Pattern", KEYBOARD_PATTERNS)
       /\ OnePerHeld("Character Sequence", SEQUENCES)
       /\ Cardinality(OfType("Character Repetition")) = (IF Runs = {} THEN 0 ELSE 1)
       /\ \A i \in OfType("Character Repetition") :
             /\ Found[i].position[1] \in Runs
             /\ \A k \in Runs : Found[i].position[1] <= k
       /\ Cardinality(OfType("Date/Year")) = (IF YearsAt = {} THEN 0 ELSE 1)
       /\ Cardinality(OfType("L33t Speak"))
             = (IF \E n \in 1..Len(analysis.args.password) :
                      analysis.args.password[n] \in {"@", "3", "1", "0", "$", "7"}
                THEN 1 ELSE 0)
       /\ analysis.args.password = <<>> => Found = <<>>

\* qwertyuiop holds qwerty as well: two keyboard matches, in list order
C25_Witness ==
    /\ Returns
    /\ analysis.args.password = <<"q", "w", "e", "r", "t", "y", "u", "i", "o", "p">>
    /\ Len(Found) = 2
    /\ Found[1].detail = <<"q", "w", "e", "r", "t", "y">>
    /\ Found[2].detail = <<"q", "w", "e", "r", "t", "y", "u", "i", "o", "p">>


---------------------------------------------------------------------------
(* The recommendations *)

Recommended == analysis.ret.value.recommendations

Says(message) == \E i \in 1..Len(Recommended) : Recommended[i] = message

\* the place of a message in the order of the rules
MessageRank(message) ==
    CASE message \in {"increase_length", "consider_16"} -> 1
      [] message = "mix_classes" -> 2
      [] message = "common_password" -> 3
      [] message = "keyboard_pattern" -> 4
      [] message = "date_year" -> 5
      [] message = "password_manager" -> 6
      [] message = "enable_mfa" -> 7
      [] message = "password_is_strong" -> 8
      [] message = "mfa_additional_layer" -> 9

Affirmative == <<"password_is_strong", "mfa_additional_layer">>

\* no rule has anything to say about the returned analysis
NothingToSay ==
    /\ analysis.ret.value.length >= 16
    /\ analysis.ret.value.charset_size >= 62
    /\ OfType("Common Password") = {}
    /\ OfType("Keyboard Pattern") = {}
    /\ OfType("Date/Year") = {}
    /\ analysis.ret.value.strength \notin {"very_weak", "weak"}

\* C26: the recommendations are never empty and come in the order of the
\* rules (length, charset, common password, keyboard pattern, year, weak
\* strength); the two affirmative messages are given exactly when no rule
\* fired, that is when the length is at least 16, the charset size at least
\* 62, no common-password, keyboard or year match is present and the strength
\* is neither very weak nor weak, and then they are the whole list.
C26_Recommendations ==
    Returns =>
       /\ Len(Recommended) >= 1
       /\ \A i, j \in 1..Len(Recommended) :
             i < j => MessageRank(Recommended[i]) < MessageRank(Recommended[j])
       /\ Says("increase_length") <=> analysis.ret.value.length < 12
       /\ Says("consider_16") <=> analysis.ret.value.length \in 12..15
       /\ Says("mix_classes") <=> analysis.ret.value.charset_size < 62
       /\ Says("common_password") <=> OfType("Common Password") # {}
       /\ Says("keyboard_pattern") <=> OfType("Keyboard Pattern") # {}
       /\ Says("date_year") <=> OfType("Date/Year") # {}
       /\ Says("password_manager")
             <=> analysis.ret.value.strength \in {"very_weak", "weak"}
       /\ Says("enable_mfa") <=> Says("password_manager")
       /\ (Says(Affirmative[1]) \/ Says(Affirmative[2])) <=> NothingToSay
       /\ NothingToSay <=> Recommended = Affirmative

\* three times Xk#9mQ!v: 24 characters of four classes, no match, and the
\* two affirmative messages
C26_Witness ==
    /\ Returns
    /\ Len(analysis.args.password) = 24
    /\ analysis.ret.value.charset_size = 94
    /\ Found = <<>>
    /\ Recommended = Affirmative


---------------------------------------------------------------------------
(* The rate limiting *)

\* the sleeps a run has made when it has compared n candidates
SleepsAfter(n) == IF n = 0 THEN 0 ELSE (n - 1) \div config.speed_limit

\* between the sleep and the comparison of the candidate of 0-based index
\* compared, the multiples of speed_limit up to that index have been slept on
SleepsCounted ==
    /\ pc = "compare" => sleeps = compared \div config.speed_limit
    /\ pc \in {"limit", "stopcheck", "next", "return"} => sleeps = SleepsAfter(compared)
    /\ (pc = "idle" /\ result # None /\ outcome \notin {"Idle", "ValueError", "OSError"})
          => sleeps = SleepsAfter(compared)
    /\ compared <= config.speed_limit => (pc # "compare" => sleeps = 0)

\* a step that sleeps does so once, right before the comparison of a
\* candidate whose index is a positive multiple of speed_limit, and leaves
\* found, attempts and stopped_by_limit as they are
SleepStep ==
    sleeps' > sleeps =>
       /\ sleeps' = sleeps + 1
       /\ pc = "throttle" /\ pc' = "compare"
       /\ compared > 0 /\ compared % config.speed_limit = 0
       /\ UNCHANGED <<found, attempts, stopped_by_limit, compared, candidate>>

\* no step before a comparison at such an index passes without the sleep
NoSleepMissed ==
    (pc = "throttle" /\ pc' = "compare" /\ compared > 0
        /\ compared % config.speed_limit = 0)
    => sleeps' = sleeps + 1

\* C27: a run sleeps exactly once right before comparing each candidate
\* whose 0-based index is a positive multiple of speed_limit and nowhere
\* else, so that n >= 1 comparisons come with floor((n - 1) / speed_limit)
\* sleeps, none within the first speed_limit comparisons, and a sleep leaves
\* found, attempts and stopped_by_limit unchanged.
C27_Throttle == [](SleepsCounted) /\ [][SleepStep /\ NoSleepMissed]_vars

\* five candidates compared at two per second: slept before the third and
\* before the fifth
C27_Witness ==
    /\ pc = "idle" /\ result # None
    /\ config.speed_limit = 2
    /\ compared = 5
    /\ sleeps = 2


---------------------------------------------------------------------------
(* Termination *)

\* a call of simulate_attack is under way
InCall == pc # "idle"

---------------------------------------------------------------------------
(* Large keyspaces *)

TimeUnits ==
    {"milliseconds", "seconds", "minutes", "hours", "days", "years",
     "thousand years", "million years", "billion years"}

\* C29 (as claimed): estimate_crack_time returns a CrackEstimate with a
\* formatted duration for every password_length >= 0 and charset_size >= 1,
\* however large charset_size ** password_length is, and so analyze returns
\* an analysis for every password.
C29_EstimateTotal ==
    /\ (Called("estimate_crack_time")
          /\ engine.args.password_length >= 0
          /\ engine.args.charset_size >= 1
          /\ engine.args.algorithm \in Algorithms)
       => /\ engine.ret.raised = "no"
          /\ engine.ret.value.human_readable.unit \in TimeUnits
    /\ Analyzed => analysis.ret.raised = "no"


---------------------------------------------------------------------------
(* Found exactly when the target lies within the attempt limit *)

\* the target's first index in the whole candidate sequence is max_attempts
\* or later (looked for up to MaxAttempts candidates past the limit)
BeyondLimit ==
    /\ FirstIndex(config, target, config.max_attempts) = -1
    /\ FirstIndex(config, target, config.max_attempts + MaxAttempts) >= 0

\* C30 (as claimed): with stop() never called, the returned result has
\* success = true if and only if the target first occurs at a 0-based index
\* r < max_attempts; a target whose first index is max_attempts or later is
\* not reported found and the run ends with stopped_by_limit = true.
C30_FoundIffWithinLimit ==
    (Returned /\ ~stop_requested) =>
       /\ result[1].success <=>
             FirstIndex(config, target, config.max_attempts) >= 0
       /\ BeyondLimit =>
             (~result[1].success /\ result[1].stopped_by_limit)

=============================================================================
